---- MODULE Spec2Model ----
(***************************************************************************)
(* Model of the ingestion core of the ERC-20 transfer indexer:             *)
(*   - Provider            (internal/ethereum/provider.go)  circuit breaker *)
(*   - ProviderPool        (internal/ethereum/client.go)    failover        *)
(*   - MongoRepository / RedisCache cursor (repository, cache packages)     *)
(*   - IngestionService    (internal/service/ingestion.go)  the scanner     *)
(* Each component has its own specification over the shared variables; a    *)
(* specification leaves the variables of the other components unchanged.    *)
(***************************************************************************)
EXTENDS Integers, Sequences, FiniteSets, TLC

VARIABLES
    \* ---- Provider (circuit breaker), one endpoint on its own
    prov,       \* the Provider's circuit-breaker fields
    now,        \* wall clock (time.Now), shared by all specifications
    hist,       \* history: the RecordSuccess / RecordFailure calls made so far
    healthCall, \* an IsHealthy call in progress: its position and what it observed
    \* ---- cursor store: MongoRepository over an optional RedisCache
    processedColl,  \* block numbers in the processed_blocks collection
    redisKey,       \* value of ethereum:last_block (a digit string), NoKey if unset
    cacheKind,      \* "nil": no cache; "enabled"; "disabled": RedisCache{enabled: false}
    warmups,        \* block numbers of the cache warm-up goroutines still to run
    acked,          \* history: the n of every SetLastProcessedBlock(n) that returned nil
    lastRead,       \* history: the last GetLastProcessedBlock call and what it saw
    lastWrite,      \* history: the last SetLastProcessedBlock call made in SpecCursor
    \* ---- ProviderPool and the pool operations running on it
    providers,      \* ProviderPool.providers: the Providers, sorted by weight
    poolCurrent,    \* ProviderPool.current: the round-robin index
    ops,            \* per caller: the pool operation it is running (locals)
    \* ---- IngestionService (the scanner) and what it reads and writes
    cfg,            \* the Config the process was started with
    svc,            \* IngestionService: currentBatchSize, successCount, failureCount
    scan,           \* the Start loop: its position, currentBlock, processBlocks' locals
    tip,            \* the chain's latest block number
    transfersColl,  \* the transfers collection, one record per (txHash, logIndex)
    published,      \* history: the transfers passed to stream.Publish
    returned,       \* history: the logs the log query has returned
    \* ---- Fetcher: FetchTransferLogs with its BlockHeaderCache
    headerCache,    \* BlockHeaderCache.cache: block number -> timestamp
    fetch,          \* the FetchTransferLogs call in progress and its goroutines
    fetchedHeaders, \* history: <<block, timestamp>> of every header fetched
    \* ---- Stream: the event bus, its subscribers and their channels
    stream,         \* the Stream: clients, buffer, bufferSize, mu
    chans,          \* per connection: its client channel
    publisher,      \* the goroutine calling Publish, and its call in progress
    handlers,       \* per connection: the handler goroutine and what it received
    drains,         \* per connection: the replay goroutine Subscribe starts
    pubLog,         \* history: each Publish call's transfer and the clients it saw
    \* ---- the loop of IngestionService.Start under its context
    loop,           \* the Start loop: position, ctx, the ticker's channel, the client mode
    poolMu          \* ProviderPool.mu: the goroutines holding it

breakerVars == <<prov, hist, healthCall>>
cursorVars == <<processedColl, redisKey, cacheKind, warmups, acked, lastRead, lastWrite>>
poolVars == <<providers, poolCurrent, ops>>
scannerVars == <<cfg, svc, scan, tip, transfersColl, published, returned>>
fetcherVars == <<headerCache, fetch, fetchedHeaders>>
streamVars == <<stream, chans, publisher, handlers, drains, pubLog>>
loopVars == <<loop, poolMu>>
vars == <<prov, now, hist, processedColl, redisKey, cacheKind, warmups, acked, lastRead,
          lastWrite,
          providers, poolCurrent, ops, cfg, svc, scan, tip, transfersColl, published,
          returned, healthCall, headerCache, fetch, fetchedHeaders, stream, chans,
          publisher, handlers, drains, pubLog, loop, poolMu>>

(***************************************************************************)
(* Bounds of the model.                                                     *)
(***************************************************************************)
MaxTime == 4          \* the clock runs 0..MaxTime
MaxCalls == 6         \* RecordSuccess/RecordFailure calls in one behaviour
MaxThreshold == 2     \* failureThreshold in 1..MaxThreshold, successThreshold up to +1
MaxProbeAfter == 2    \* circuit-breaker timeout in 1..MaxProbeAfter
MaxCursor == 3        \* SetLastProcessedBlock is called with 0..MaxCursor
MaxSpan == 2          \* FilterLogs is called with block numbers in 1..MaxSpan
MaxPoolTime == 2      \* the clock runs 0..MaxPoolTime while the pool is exercised
MaxTip == 2           \* the chain grows to block MaxTip
MaxFailures == 2      \* failed ticks in a row at the smallest batch size
MaxIngests == 3       \* FetchTransferLogs calls in one behaviour
MaxPublishes == 2     \* Publish calls in one behaviour
MaxTicks == 4         \* times the poll ticker fires in one behaviour

Max2(a, b) == IF a >= b THEN a ELSE b
Min2(a, b) == IF a <= b THEN a ELSE b

(***************************************************************************)
(* Provider: provider.go                                                    *)
(***************************************************************************)
StateHealthy == "StateHealthy"
StateUnhealthy == "StateUnhealthy"
StateHalfOpen == "StateHalfOpen"

\* CircuitBreakerConfig values a behaviour may run with: what the
\* circuit_breaker section of the providers file gives, the default
\* HalfOpenMaxCalls 3 or the smallest limit 1.
CircuitBreakerConfigs ==
    [FailureThreshold : 1..MaxThreshold,
     SuccessThreshold : 1..MaxThreshold + 1,
     Timeout          : 1..MaxProbeAfter,
     HalfOpenMaxCalls : {1, 3}]

\* NewProvider: state Healthy, counters zero, lastFailureTime the zero time
\* (modelled as -1: time.Since(zero time) exceeds every timeout).
NewProvider(weight, maxRange, cbConfig) ==
    [Weight           |-> weight,
     MaxRange         |-> maxRange,
     state            |-> StateHealthy,
     failureCount     |-> 0,
     successCount     |-> 0,
     lastFailureTime  |-> -1,
     failureThreshold |-> cbConfig.FailureThreshold,
     successThreshold |-> cbConfig.SuccessThreshold,
     timeout          |-> cbConfig.Timeout,
     halfOpenMaxCalls |-> cbConfig.HalfOpenMaxCalls,
     halfOpenCalls    |-> 0]

\* time.Since(p.lastFailureTime) > p.timeout
TimeoutPassed(p, t) ==
    IF p.lastFailureTime < 0 THEN TRUE ELSE t - p.lastFailureTime > p.timeout

\* IsHealthy's effect on the provider: the Unhealthy -> HalfOpen move.
IsHealthyState(p, t) ==
    IF p.state = StateUnhealthy /\ TimeoutPassed(p, t)
    THEN [p EXCEPT !.state = StateHalfOpen, !.halfOpenCalls = 0]
    ELSE p

\* IsHealthy's return value, the calls on the provider taken one at a time.
IsHealthy(p, t) ==
    IF p.state = StateHealthy THEN TRUE
    ELSE IsHealthyState(p, t).state = StateHalfOpen

\* No IsHealthy call in progress. lin collects what IsHealthy taken as one
\* step would have returned at the instants of the call.
IdleHealthCall == [pc |-> "idle", result |-> FALSE, lin |-> {}]

\* RecordSuccess: lastSuccessTime is written and never read; it is left out.
RecordSuccess(p) ==
    LET q == [p EXCEPT !.successCount = p.successCount + 1, !.failureCount = 0]
    IN  IF q.state = StateHalfOpen
        THEN IF q.successCount >= q.successThreshold
             THEN [q EXCEPT !.state = StateHealthy, !.halfOpenCalls = 0,
                            !.successCount = 0]
             ELSE [q EXCEPT !.halfOpenCalls = q.halfOpenCalls + 1]
        ELSE IF q.state = StateUnhealthy
             THEN [q EXCEPT !.state = StateHalfOpen]
             ELSE q

\* RecordFailure with `>` for `>=` in the failure-threshold test.
RecordFailureLate(p, t) ==
    LET q == [p EXCEPT !.lastFailureTime = t,
                       !.failureCount = p.failureCount + 1,
                       !.successCount = 0]
    IN  IF q.state = StateHalfOpen
        THEN [q EXCEPT !.state = StateUnhealthy, !.halfOpenCalls = 0]
        ELSE IF q.failureCount > q.failureThreshold
             THEN [q EXCEPT !.state = StateUnhealthy]
             ELSE q

\* RecordFailure that leaves the half-open call count as it was.
RecordFailureKeepCalls(p, t) ==
    LET q == [p EXCEPT !.lastFailureTime = t,
                       !.failureCount = p.failureCount + 1,
                       !.successCount = 0]
    IN  IF q.state = StateHalfOpen
        THEN [q EXCEPT !.state = StateUnhealthy]
        ELSE IF q.failureCount >= q.failureThreshold
             THEN [q EXCEPT !.state = StateUnhealthy]
             ELSE q

RecordFailure(p, t) ==
    LET q == [p EXCEPT !.lastFailureTime = t,
                       !.failureCount = p.failureCount + 1,
                       !.successCount = 0]
    IN  IF q.state = StateHalfOpen
        THEN [q EXCEPT !.state = StateUnhealthy, !.halfOpenCalls = 0]
        ELSE IF q.failureCount >= q.failureThreshold
             THEN [q EXCEPT !.state = StateUnhealthy]
             ELSE q

(***************************************************************************)
(* ProviderPool: client.go (NewProviderPool, GetHealthyProviders,           *)
(* SelectProvider, FilterLogs).                                             *)
(***************************************************************************)
\* Weights of the configured providers, in configuration order.
ProviderWeights == <<1, 10>>

\* MaxRange of the configured providers, in configuration order: the
\* configurations the pool is exercised with.
ProviderMaxRanges == {<<1, 1>>, <<1, 2>>, <<2, 1>>, <<2, 2>>}

RECURSIVE InsertByWeight(_, _)
InsertByWeight(sorted, p) ==
    IF sorted = <<>> THEN <<p>>
    ELSE IF p.Weight > sorted[1].Weight THEN <<p>> \o sorted
    ELSE <<sorted[1]>> \o InsertByWeight(Tail(sorted), p)

RECURSIVE SortByWeight(_)
\* sort.Slice(sorted, Weight descending) of NewProviderPool.
SortByWeight(ps) ==
    IF ps = <<>> THEN <<>>
    ELSE InsertByWeight(SortByWeight(Tail(ps)), ps[1])

\* NewProviderPool over providers built by NewProvider.
NewProviderPool(maxRanges, cbConfig) ==
    SortByWeight([i \in 1..Len(ProviderWeights) |->
        NewProvider(ProviderWeights[i], maxRanges[i], cbConfig)])

\* The provider states after IsHealthy has been called on each of them.
AfterHealthChecks(provs, t) ==
    [i \in 1..Len(provs) |-> IsHealthyState(provs[i], t)]

RECURSIVE HealthyFrom(_, _, _)
HealthyFrom(provs, t, i) ==
    IF i > Len(provs) THEN <<>>
    ELSE (IF IsHealthy(provs[i], t) THEN <<i>> ELSE <<>>) \o HealthyFrom(provs, t, i + 1)

\* GetHealthyProviders: the indices of the providers whose IsHealthy is true,
\* in pool order.
GetHealthyProviders(provs, t) == HealthyFrom(provs, t, 1)

\* SelectProvider, its body taken as one step under the pool lock:
\* [sel, err, current]. With no healthy provider it returns providers[0]
\* together with an error.
SelectProvider(provs, current, t) ==
    LET healthy == GetHealthyProviders(provs, t)
    IN  IF Len(healthy) > 0
        THEN [sel |-> healthy[(current % Len(healthy)) + 1], err |-> FALSE,
              current |-> current + 1]
        ELSE [sel |-> 1, err |-> TRUE, current |-> current]

\* blockRange with the + 1 forgotten.
BlockRangeNoPlusOne(fromBlock, toBlock) == toBlock - fromBlock

\* blockRange := query.ToBlock - query.FromBlock + 1
BlockRange(fromBlock, toBlock) == toBlock - fromBlock + 1

\* The concurrent callers of the pool.
OpIds == {1, 2}

\* Circuit-breaker configurations the pool is exercised with.
PoolBreakerConfigs ==
    {[FailureThreshold |-> 1, SuccessThreshold |-> 1, Timeout |-> 1, HalfOpenMaxCalls |-> 3],
     [FailureThreshold |-> 2, SuccessThreshold |-> 2, Timeout |-> 1, HalfOpenMaxCalls |-> 3]}

\* The operation after its RPC returned without error: return logs, nil.
OpAfterSuccess(op) ==
    [op EXCEPT !.pc = "done", !.result = "ok", !.served = op.sel,
               !.calls[Len(op.calls)].res = "ok"]

IdleOp ==
    [pc |-> "idle", blockRange |-> 0, span |-> 0, attempt |-> 0,
     attempted |-> {}, sel |-> 0, ctxDone |-> FALSE,
     invoked |-> {}, skipped |-> {}, result |-> "none", served |-> 0,
     calls |-> <<>>]

(***************************************************************************)
(* Cursor store: MongoRepository.GetLastProcessedBlock /                    *)
(* SetLastProcessedBlock over RedisCache (look-aside read, write-through).  *)
(***************************************************************************)
NoKey == <<>>

SetMax(S) == IF S = {} THEN 0 ELSE CHOOSE x \in S : \A y \in S : y <= x

RECURSIVE FormatUint(_)
\* strconv.FormatUint(n, 10): the decimal digits of n.
FormatUint(n) ==
    IF n < 10 THEN <<n>> ELSE Append(FormatUint(n \div 10), n % 10)

RECURSIVE ParseUint(_)
\* strconv.ParseUint(s, 10, 64) of a digit string.
ParseUint(str) ==
    IF Len(str) = 1 THEN str[1]
    ELSE 10 * ParseUint(SubSeq(str, 1, Len(str) - 1)) + str[Len(str)]

\* RedisCache.GetLastProcessedBlock: [err, val]. A missing key (redis.Nil)
\* is answered with (0, nil).
RedisGetLastProcessedBlock(kind, key, up) ==
    IF kind = "disabled" THEN [err |-> TRUE, val |-> 0]
    ELSE IF ~up THEN [err |-> TRUE, val |-> 0]
    ELSE IF key = NoKey THEN [err |-> FALSE, val |-> 0]
    ELSE [err |-> FALSE, val |-> ParseUint(key)]

\* RedisCache.SetLastProcessedBlock: [err, key'].
RedisSetLastProcessedBlock(kind, key, n, up) ==
    IF kind = "disabled" \/ ~up THEN [err |-> TRUE, key |-> key]
    ELSE [err |-> FALSE, key |-> FormatUint(n)]

\* The processed_blocks query of GetLastProcessedBlock: FindOne sorted by
\* block_number descending; ErrNoDocuments gives 0.
FindLastProcessed(coll) == SetMax(coll)

\* MongoRepository.GetLastProcessedBlock: [err, val, warm, cache] where warm
\* is the set of warm-up goroutines it starts and cache tells how the cache
\* answered ("none", "hit", "miss", "error").
MongoGetLastProcessedBlock(kind, coll, key, redisUp, mongoOk) ==
    LET c == RedisGetLastProcessedBlock(kind, key, redisUp)
        how == IF kind = "nil" THEN "none"
               ELSE IF c.err THEN "error"
               ELSE IF key = NoKey THEN "miss" ELSE "hit"
        v == FindLastProcessed(coll)
    IN  IF kind # "nil" /\ ~c.err
        THEN [err |-> FALSE, val |-> c.val, warm |-> {}, cache |-> how]
        ELSE IF ~mongoOk
        THEN [err |-> TRUE, val |-> 0, warm |-> {}, cache |-> how]
        ELSE [err |-> FALSE, val |-> v,
              warm |-> IF kind # "nil" /\ v > 0 THEN {v} ELSE {},
              cache |-> how]

\* SetLastProcessedBlock that fails when the cache write fails.
MongoSetLastProcessedBlockStrict(kind, coll, key, n, redisUp, mongoOk) ==
    IF ~mongoOk THEN [err |-> TRUE, coll |-> coll, key |-> key]
    ELSE [err |-> kind # "nil" /\ RedisSetLastProcessedBlock(kind, key, n, redisUp).err,
          coll |-> coll \cup {n},
          key |-> IF kind = "nil" THEN key
                  ELSE RedisSetLastProcessedBlock(kind, key, n, redisUp).key]

\* MongoRepository.SetLastProcessedBlock: [err, coll', key'].
MongoSetLastProcessedBlock(kind, coll, key, n, redisUp, mongoOk) ==
    IF ~mongoOk THEN [err |-> TRUE, coll |-> coll, key |-> key]
    ELSE [err |-> FALSE, coll |-> coll \cup {n},
          key |-> IF kind = "nil" THEN key
                  ELSE RedisSetLastProcessedBlock(kind, key, n, redisUp).key]

(***************************************************************************)
(* Scanner: config.Load, NewIngestionService, processBlocks' computations,  *)
(* the adaptive batch policy, and the services the scanner calls.           *)
(***************************************************************************)
\* Batch settings of the environment: ADAPTIVE_BATCH, BLOCK_BATCH_SIZE,
\* BATCH_MIN_SIZE, BATCH_MAX_SIZE, BATCH_SUCCESS_STREAK,
\* BATCH_FAILURE_BACKOFF.
BatchEnvs ==
    {[ADAPTIVE_BATCH |-> FALSE, BLOCK_BATCH_SIZE |-> 1, BATCH_MIN_SIZE |-> 1,
      BATCH_MAX_SIZE |-> 100, BATCH_SUCCESS_STREAK |-> 3, BATCH_FAILURE_BACKOFF |-> 2],
     [ADAPTIVE_BATCH |-> FALSE, BLOCK_BATCH_SIZE |-> 0, BATCH_MIN_SIZE |-> 1,
      BATCH_MAX_SIZE |-> 100, BATCH_SUCCESS_STREAK |-> 3, BATCH_FAILURE_BACKOFF |-> 2],
     [ADAPTIVE_BATCH |-> TRUE, BLOCK_BATCH_SIZE |-> 1, BATCH_MIN_SIZE |-> 1,
      BATCH_MAX_SIZE |-> 2, BATCH_SUCCESS_STREAK |-> 1, BATCH_FAILURE_BACKOFF |-> 2],
     [ADAPTIVE_BATCH |-> TRUE, BLOCK_BATCH_SIZE |-> 2, BATCH_MIN_SIZE |-> 1,
      BATCH_MAX_SIZE |-> 4, BATCH_SUCCESS_STREAK |-> 2, BATCH_FAILURE_BACKOFF |-> 2],
     [ADAPTIVE_BATCH |-> TRUE, BLOCK_BATCH_SIZE |-> 0, BATCH_MIN_SIZE |-> 1,
      BATCH_MAX_SIZE |-> 2, BATCH_SUCCESS_STREAK |-> 2, BATCH_FAILURE_BACKOFF |-> 2],
     [ADAPTIVE_BATCH |-> TRUE, BLOCK_BATCH_SIZE |-> 1, BATCH_MIN_SIZE |-> 2,
      BATCH_MAX_SIZE |-> 4, BATCH_SUCCESS_STREAK |-> 1, BATCH_FAILURE_BACKOFF |-> 2]}

\* START_BLOCK values of the environment.
StartBlockEnvs == {0, 1}

\* config.Load, the ingestion and streaming settings.
Load(env, startBlock, resetStartBlock, enableStream) ==
    LET blockBatchSize == IF env.BLOCK_BATCH_SIZE = 0 THEN 10
                          ELSE IF env.BLOCK_BATCH_SIZE > 100 THEN 100
                          ELSE env.BLOCK_BATCH_SIZE
    IN  [StartBlock |-> startBlock,
         BlockBatchSize |-> blockBatchSize,
         ResetStartBlock |-> resetStartBlock,
         AdaptiveBatch |-> env.ADAPTIVE_BATCH,
         BatchMinSize |-> IF env.ADAPTIVE_BATCH THEN env.BATCH_MIN_SIZE ELSE blockBatchSize,
         BatchMaxSize |-> IF env.ADAPTIVE_BATCH THEN env.BATCH_MAX_SIZE ELSE blockBatchSize,
         BatchSuccessStreak |-> env.BATCH_SUCCESS_STREAK,
         BatchFailureBackoff |-> env.BATCH_FAILURE_BACKOFF,
         StreamingEnabled |-> enableStream]

\* NewIngestionService: the adaptive state of a new service.
NewIngestionService(c) ==
    [currentBatchSize |-> IF c.BlockBatchSize = 0 THEN 10 ELSE c.BlockBatchSize,
     successCount |-> 0,
     failureCount |-> 0]

\* processBlocks: batchSize := s.currentBatchSize, with its fallbacks.
BatchSize(s, c) ==
    IF s.currentBatchSize # 0 THEN s.currentBatchSize
    ELSE IF c.BlockBatchSize # 0 THEN c.BlockBatchSize
    ELSE 10

\* The skip test that lets the block after the tip through.
NoNewBlocksLate(fromBlock, latestBlock) == fromBlock > latestBlock + 1

\* processBlocks: if fromBlock > latestBlock, return fromBlock, nil.
NoNewBlocks(fromBlock, latestBlock) == fromBlock > latestBlock

\* The end of the range without the cap at the latest block.
ToBlockUncapped(fromBlock, batchSize, latestBlock) == fromBlock + batchSize - 1

\* processBlocks: toBlock := fromBlock + batchSize - 1, at most latestBlock.
ToBlock(fromBlock, batchSize, latestBlock) ==
    Min2(fromBlock + batchSize - 1, latestBlock)

\* The next block without the + 1.
NextBlockSame(toBlock) == toBlock

\* processBlocks: return toBlock + 1.
NextBlock(toBlock) == toBlock + 1

\* adjustBatchSizeOnSuccess.
adjustBatchSizeOnSuccess(s, c) ==
    LET successCount == s.successCount + 1
        newSize == Min2(s.currentBatchSize * 2, c.BatchMaxSize)
    IN  IF successCount >= c.BatchSuccessStreak /\ newSize # s.currentBatchSize
        THEN [currentBatchSize |-> newSize, successCount |-> 0, failureCount |-> 0]
        ELSE [currentBatchSize |-> s.currentBatchSize, successCount |-> successCount,
              failureCount |-> 0]

\* adjustBatchSizeOnFailure that waits for a second failure in a row.
adjustBatchSizeOnFailureStreak(s, c) ==
    LET failureCount == s.failureCount + 1
        newSize == Max2(s.currentBatchSize \div c.BatchFailureBackoff, c.BatchMinSize)
    IN  IF failureCount >= 2 /\ newSize # s.currentBatchSize
        THEN [currentBatchSize |-> newSize, successCount |-> 0, failureCount |-> 0]
        ELSE [currentBatchSize |-> s.currentBatchSize, successCount |-> 0,
              failureCount |-> failureCount]

\* adjustBatchSizeOnFailure.
adjustBatchSizeOnFailure(s, c) ==
    LET failureCount == s.failureCount + 1
        newSize == Max2(s.currentBatchSize \div c.BatchFailureBackoff, c.BatchMinSize)
    IN  IF newSize # s.currentBatchSize
        THEN [currentBatchSize |-> newSize, successCount |-> 0, failureCount |-> 0]
        ELSE [currentBatchSize |-> s.currentBatchSize, successCount |-> 0,
              failureCount |-> failureCount]

\* A failed fetch or insert that leaves the service as it was.
OnFailureSkipped(s, c) == s

\* The service after a failed fetch or insert: adjusted only in adaptive mode.
OnFailure(s, c) == IF c.AdaptiveBatch THEN adjustBatchSizeOnFailure(s, c) ELSE s

\* The service after a successful tick: adjusted only in adaptive mode.
OnSuccess(s, c) == IF c.AdaptiveBatch THEN adjustBatchSizeOnSuccess(s, c) ELSE s

\* The logs of the chain: the Transfer-topic logs of block b. wellFormed
\* tells whether ParseTransferLog accepts the log.
ChainLogs(b) ==
    CASE b % 3 = 0 -> {[blockNumber |-> b, index |-> 0, wellFormed |-> TRUE],
                       [blockNumber |-> b, index |-> 1, wellFormed |-> FALSE]}
      [] b % 3 = 1 -> {}
      [] OTHER     -> {[blockNumber |-> b, index |-> 0, wellFormed |-> TRUE]}

\* What FilterLogs answers for [fromBlock, toBlock].
FilterLogs(fromBlock, toBlock) == UNION {ChainLogs(b) : b \in fromBlock..toBlock}

\* FetchTransferLogs' parse loop: logs ParseTransferLog rejects are skipped.
ParseTransferLogs(logs) == {l \in logs : l.wellFormed}

\* The key of the unique index of the transfers collection; a log's
\* (blockNumber, index) stands for its (tx_hash, log_index).
TransferKey(r) == <<r.blockNumber, r.index>>

\* InsertTransfers without the unique index.
InsertTransfersAll(coll, transfers) == coll \cup transfers

\* InsertTransfers that reports success and writes nothing.
InsertTransfersLost(coll, transfers) == coll

\* InsertTransfers returning nil: every transfer is in the collection
\* (duplicates of (txHash, logIndex) are absorbed).
InsertTransfers(coll, transfers) ==
    coll \cup {t \in transfers : \A r \in coll : TransferKey(r) # TransferKey(t)}

\* The publish loop of processBlocks: one Publish per transfer when a stream
\* is configured.
PublishAll(pub, transfers, c) ==
    IF c.StreamingEnabled THEN pub \cup transfers ELSE pub

\* Start, up to the loop: [err, currentBlock] from the reset flag or the
\* result r of GetLastProcessedBlock.
StartBlockOf(c, r) ==
    IF c.ResetStartBlock THEN [err |-> FALSE, currentBlock |-> c.StartBlock]
    ELSE IF r.err THEN [err |-> TRUE, currentBlock |-> 0]
    ELSE IF r.val > 0 THEN [err |-> FALSE, currentBlock |-> r.val + 1]
    ELSE [err |-> FALSE, currentBlock |-> c.StartBlock]

\* The Start loop before Start has run. streak is history: the successful
\* ticks in a row since the batch size last changed or a log query, header
\* fetch, bulk write or cursor write last failed. cause is history: what
\* made FetchTransferLogs fail in the tick that has just ended. pub is history: the records this
\* process has handed to Publish. first and ranges are history: the block
\* Start began at, and <<fromBlock, toBlock>> of every tick of this process
\* that returned nil after its cursor write.
NewScan ==
    [pc |-> "start", currentBlock |-> 0, fromBlock |-> 0, toBlock |-> 0,
     latestBlock |-> 0, batchSize |-> 0, transfers |-> {}, outcome |-> "none",
     streak |-> 0, cause |-> "none", pub |-> {}, first |-> 0, ranges |-> <<>>]

(***************************************************************************)
(* Fetcher: FetchTransferLogs, BlockHeaderCache, ParseTransferLog and the  *)
(* unique (tx_hash, log_index) index of the transfers collection.          *)
(***************************************************************************)
\* The header timestamp of block b on the chain.
BlockTime(b) == 1000 + 12 * b

\* BlockHeaderCache.Get that answers with any cached timestamp.
CacheGetAny(cache, b) ==
    IF DOMAIN cache = {} THEN [found |-> FALSE, timestamp |-> 0]
    ELSE [found |-> TRUE, timestamp |-> cache[CHOOSE x \in DOMAIN cache : TRUE]]

\* BlockHeaderCache.Get: [found, timestamp]; expired entries are taken out
\* of the cache by CacheExpire.
CacheGet(cache, b) ==
    IF b \in DOMAIN cache THEN [found |-> TRUE, timestamp |-> cache[b]]
    ELSE [found |-> FALSE, timestamp |-> 0]

\* BlockHeaderCache.Set.
CacheSet(cache, b, timestamp) ==
    [x \in DOMAIN cache \cup {b} |-> IF x = b THEN timestamp ELSE cache[x]]

\* BlockHeaderCache.Delete.
CacheDelete(cache, b) == [x \in DOMAIN cache \ {b} |-> cache[x]]

\* The empty map (blockTimestamps, a new cache).
NoTimestamps == [x \in {} |-> 0]

\* The unique block numbers of the logs.
UniqueBlocks(logs) == {l.blockNumber : l \in logs}

\* blockTimestamps after the cache look-ups of FetchTransferLogs.
CachedTimestamps(cache, logs) ==
    [b \in {x \in UniqueBlocks(logs) : CacheGet(cache, x).found} |->
        CacheGet(cache, b).timestamp]

\* blocksToFetch: the unique blocks the cache did not answer.
BlocksToFetch(cache, logs) ==
    {b \in UniqueBlocks(logs) : ~CacheGet(cache, b).found}

\* The models.Transfer ParseTransferLog builds from a log and a block time.
\* createdAt stands for time.Now() at the parse: the number of the call.
Transfer(l, timestamp, createdAt) ==
    [blockNumber |-> l.blockNumber, index |-> l.index, timestamp |-> timestamp,
     createdAt |-> createdAt]

\* The parse loop of FetchTransferLogs over blockTimestamps.
ParseWithTimestamps(logs, blockTimestamps, createdAt) ==
    {Transfer(l, blockTimestamps[l.blockNumber], createdAt) :
        l \in ParseTransferLogs(logs)}

\* The parse loop's early return: a log whose block has no timestamp.
MissingTimestamp(logs, blockTimestamps) ==
    \E l \in logs : l.blockNumber \notin DOMAIN blockTimestamps

\* The error of the unordered BulkWrite: "none", "duplicate" when a document
\* hits the unique index, "other" on any other fault.
BulkWriteError(coll, transfers, fault) ==
    IF fault THEN "other"
    ELSE IF \E t \in transfers : \E r \in coll : TransferKey(r) = TransferKey(t)
         THEN "duplicate"
         ELSE "none"

\* Whether InsertTransfers returns an error: never for an empty batch, and a
\* duplicate-key error is answered with nil.
InsertTransfersErr(coll, transfers, fault) ==
    transfers # {} /\ BulkWriteError(coll, transfers, fault) = "other"

\* The ranges FetchTransferLogs is called with.
FetchRanges == {<<0, 0>>, <<1, 1>>, <<2, 2>>, <<0, 1>>, <<0, 2>>}

\* No FetchTransferLogs call in progress. stray holds the header goroutines
\* of calls that have returned.
IdleFetch ==
    [pc |-> "idle", logs |-> {}, blockTimestamps |-> NoTimestamps,
     running |-> {}, blockChan |-> {}, toCollect |-> 0, stray |-> {},
     transfers |-> {}, result |-> "none", before |-> {}, fault |-> FALSE,
     cached |-> {}, call |-> 0]

(***************************************************************************)
(* Stream: the event bus with its replay buffer, the subscribers' channels *)
(* and the goroutines that use them.                                        *)
(***************************************************************************)
\* STREAM_BUFFER values of the environment.
BufferSizes == {1, 2}

\* The connections that subscribe, each once.
ClientIds == {1, 2}

\* The goroutines that take Stream.mu.
PublisherThread == <<"publisher", 0>>
HandlerThread(c) == <<"handler", c>>
DrainThread(c) == <<"drain", c>>

\* NewStream. mu is the RWMutex: the goroutines holding it for reading and
\* the one holding it for writing.
NewStream(bufferSize) ==
    [clients |-> {}, buffer |-> <<>>, bufferSize |-> bufferSize,
     mu |-> [readers |-> {}, writer |-> <<>>]]

\* RWMutex.RLock and RWMutex.Lock can be taken.
CanRLock(mu) == mu.writer = <<>>
CanLock(mu) == mu.writer = <<>> /\ mu.readers = {}

\* A channel variable before make, and make(chan []byte, bufferSize).
NoChan == [made |-> FALSE, closed |-> FALSE, q |-> <<>>]
MakeChan == [made |-> TRUE, closed |-> FALSE, q |-> <<>>]

\* json.Marshal of a transfer.
Marshal(t) == <<"json", t>>

\* Publish with no client connected: the event is appended while the
\* buffer has room.
BufferEvent(buffer, t, bufferSize) ==
    IF Len(buffer) < bufferSize THEN Append(buffer, t) ELSE buffer

\* A send that waits for room in the channel.
SelectReadyWhenRoom(ch, cap) == Len(ch.q) < cap

\* Whether Publish's select on a client channel can proceed: it has a
\* default branch.
SelectReady(ch, cap) == TRUE

\* A send that puts the message ahead of those waiting in the channel.
TrySendFront(ch, data, cap) ==
    IF Len(ch.q) < cap THEN [ch EXCEPT !.q = <<data>> \o @] ELSE ch

\* Publish's select on a client channel: the send when there is room, the
\* default branch otherwise.
TrySend(ch, data, cap) ==
    IF Len(ch.q) < cap THEN [ch EXCEPT !.q = Append(@, data)] ELSE ch

\* The publisher, a connection's handler and its replay goroutine before
\* they have done anything. In a handler, at and pending are history: the
\* number of Publish calls made when it subscribed, and the transfers
\* published since the last time a client was connected.
IdlePublisher == [pc |-> "idle", t |-> 0, count |-> 0]
NewHandler == [pc |-> "out", recv |-> <<>>, pending |-> <<>>, at |-> 0]
NoDrain == [pc |-> "none", buffered |-> <<>>]

(***************************************************************************)
(* Passage of time, and each component's variables at rest.               *)
(***************************************************************************)
ClockTick ==
    /\ now < MaxTime
    /\ now' = now + 1

NoRead == [ok |-> FALSE, val |-> 0, floor |-> 0, durable |-> 0, cache |-> "none"]

\* No SetLastProcessedBlock call made yet.
NoWrite ==
    [called |-> FALSE, n |-> 0, durable |-> FALSE, cacheOk |-> FALSE, err |-> FALSE,
     keyBefore |-> NoKey, keyAfter |-> NoKey]

\* The cursor store's variables when a specification does not use them.
CursorIdle ==
    /\ processedColl = {}
    /\ redisKey = NoKey
    /\ cacheKind = "nil"
    /\ warmups = {}
    /\ acked = {}
    /\ lastRead = NoRead
    /\ lastWrite = NoWrite

BreakerIdle ==
    /\ prov = NewProvider(1, 1, [FailureThreshold |-> 1, SuccessThreshold |-> 1,
                                 Timeout |-> 1, HalfOpenMaxCalls |-> 3])
    /\ hist = <<>>
    /\ healthCall = IdleHealthCall

\* The scanner's variables when a specification does not use them.
ScannerIdle ==
    /\ cfg = Load([ADAPTIVE_BATCH |-> FALSE, BLOCK_BATCH_SIZE |-> 1,
                   BATCH_MIN_SIZE |-> 1, BATCH_MAX_SIZE |-> 100,
                   BATCH_SUCCESS_STREAK |-> 3, BATCH_FAILURE_BACKOFF |-> 2],
                  0, FALSE, FALSE)
    /\ svc = NewIngestionService(cfg)
    /\ scan = NewScan
    /\ tip = 0
    /\ transfersColl = {}
    /\ published = {}
    /\ returned = {}

\* The fetcher's variables when a specification does not use them.
FetcherIdle ==
    /\ headerCache = NoTimestamps
    /\ fetch = IdleFetch
    /\ fetchedHeaders = {}

\* The goroutine running IngestionService.Start.
ScannerThread == <<"scanner", 0>>

\* A sync.RWMutex nobody holds.
NewRWMutex == [readers |-> {}, writer |-> <<>>]

\* Start at the top of its loop, ctx live, the ticker not yet fired.
\* History: lateTick, a tick was started with ctx already done; completed, the
\* ticks that ran to the end of processBlocks. answering is the environment:
\* the endpoints whose RPCs always answer, where a specification assumes any.
NewLoop(usePool) ==
    [pc |-> "select", usePool |-> usePool, ctxDone |-> FALSE, tickerC |-> FALSE,
     ticks |-> 0, lateTick |-> FALSE, completed |-> 0, answering |-> {}]

\* The loop's variables when a specification does not use them.
LoopIdle ==
    /\ loop = NewLoop(FALSE)
    /\ poolMu = NewRWMutex

\* The stream's variables when a specification does not use them.
StreamIdle ==
    /\ stream = NewStream(1)
    /\ chans = [c \in ClientIds |-> NoChan]
    /\ publisher = IdlePublisher
    /\ handlers = [c \in ClientIds |-> NewHandler]
    /\ drains = [c \in ClientIds |-> NoDrain]
    /\ pubLog = <<>>

\* The pool's variables when a specification does not use them.
PoolIdle ==
    /\ providers = <<>>
    /\ poolCurrent = 0
    /\ ops = [o \in OpIds |-> IdleOp]

(***************************************************************************)
(* SpecBreaker: one Provider driven by arbitrary callers.                   *)
(* hist records each RecordSuccess ("S") / RecordFailure ("F") call with    *)
(* the state the provider was in when the call was made.                    *)
(***************************************************************************)
BreakerInit ==
    /\ \E cb \in CircuitBreakerConfigs : prov = NewProvider(1, 1, cb)
    /\ now = 0
    /\ hist = <<>>
    /\ healthCall = IdleHealthCall
    /\ CursorIdle
    /\ PoolIdle
    /\ ScannerIdle
    /\ FetcherIdle
    /\ LoopIdle
    /\ StreamIdle

ProviderRecordSuccess ==
    /\ Len(hist) < MaxCalls
    /\ prov' = RecordSuccess(prov)
    /\ hist' = Append(hist, [op |-> "S", st |-> prov.state])
    /\ UNCHANGED <<now, healthCall, cursorVars, poolVars, scannerVars, fetcherVars,
                   streamVars, loopVars>>

ProviderRecordFailure ==
    /\ Len(hist) < MaxCalls
    /\ prov' = RecordFailure(prov, now)
    /\ hist' = Append(hist, [op |-> "F", st |-> prov.state])
    /\ UNCHANGED <<now, healthCall, cursorVars, poolVars, scannerVars, fetcherVars,
                   streamVars, loopVars>>

ProviderIsHealthy ==
    /\ prov' = IsHealthyState(prov, now)
    /\ prov' # prov
    /\ UNCHANGED <<now, healthCall, hist, cursorVars, poolVars, scannerVars, fetcherVars,
                   streamVars, loopVars>>

BreakerTick ==
    /\ ClockTick
    /\ UNCHANGED <<breakerVars, cursorVars, poolVars, scannerVars, fetcherVars,
                   streamVars, loopVars>>

BreakerNext ==
    \/ ProviderRecordSuccess
    \/ ProviderRecordFailure
    \/ ProviderIsHealthy
    \/ BreakerTick

SpecBreaker == BreakerInit /\ [][BreakerNext]_vars

(***************************************************************************)
(* Claims about the circuit breaker (SpecBreaker).                          *)
(***************************************************************************)
RECURSIVE TrailingFailures(_)
\* Number of RecordFailure calls made since the last RecordSuccess.
TrailingFailures(h) ==
    IF h = <<>> \/ h[Len(h)].op # "F" THEN 0
    ELSE 1 + TrailingFailures(SubSeq(h, 1, Len(h) - 1))

RECURSIVE ProbingSuccesses(_)
\* Number of consecutive RecordSuccess calls, up to now, that were made while
\* the provider was in StateHalfOpen.
ProbingSuccesses(h) ==
    IF h = <<>> \/ h[Len(h)].op # "S" \/ h[Len(h)].st # StateHalfOpen THEN 0
    ELSE 1 + ProbingSuccesses(SubSeq(h, 1, Len(h) - 1))

\* C7: from Healthy the endpoint becomes Unhealthy exactly at the step that
\* brings the number of RecordFailure calls since the last RecordSuccess to
\* failureThreshold; with fewer it stays Healthy.
C7_TripsAtThreshold ==
    [][prov.state = StateHealthy =>
          /\ prov'.state \in {StateHealthy, StateUnhealthy}
          /\ (prov'.state = StateUnhealthy) <=>
                (TrailingFailures(hist') >= prov.failureThreshold)]_vars

\* C7 witness: a success restarted the count after a failure, and the
\* endpoint then tripped on the failureThreshold-th consecutive failure.
C7_Witness ==
    /\ prov.state = StateUnhealthy
    /\ prov.failureThreshold >= 2
    /\ TrailingFailures(hist) = prov.failureThreshold
    /\ \A i \in 1..Len(hist) : hist[i].st = StateHealthy
    /\ \E i \in 2..Len(hist) : hist[i].op = "S" /\ hist[i - 1].op = "F"

\* C8 (as claimed): a Probing endpoint becomes Healthy exactly when
\* successThreshold consecutive RecordSuccess calls were made while Probing.
C8_HealthyAfterProbingSuccesses ==
    [][prov.state = StateHalfOpen =>
          ((prov'.state = StateHealthy) <=>
              (ProbingSuccesses(hist') >= prov.successThreshold))]_vars

\* C9 (as claimed): a RecordFailure in Probing moves to Unhealthy and zeroes
\* the failure count, the success count and the half-open call count.
C9_FailureInProbingResetsAll ==
    [][(prov.state = StateHalfOpen /\ hist' # hist /\ hist'[Len(hist')].op = "F") =>
          /\ prov'.state = StateUnhealthy
          /\ prov'.failureCount = 0
          /\ prov'.successCount = 0
          /\ prov'.halfOpenCalls = 0]_vars

\* C9 (amended): a RecordFailure in Probing moves to Unhealthy and zeroes the
\* success count and the half-open call count; the consecutive-failure count
\* is incremented, not reset.
C9_FailureInProbing ==
    [][(prov.state = StateHalfOpen /\ hist' # hist /\ hist'[Len(hist')].op = "F") =>
          /\ prov'.state = StateUnhealthy
          /\ prov'.failureCount = prov.failureCount + 1
          /\ prov'.successCount = 0
          /\ prov'.halfOpenCalls = 0]_vars

\* C9 witness: a failure hit a Probing endpoint that had already counted a
\* probing success (success count and half-open call count were 1).
C9_Witness ==
    /\ prov.state = StateUnhealthy
    /\ Len(hist) >= 2
    /\ hist[Len(hist)] = [op |-> "F", st |-> StateHalfOpen]
    /\ hist[Len(hist) - 1] = [op |-> "S", st |-> StateHalfOpen]
    /\ prov.halfOpenCalls = 0
    /\ prov.successCount = 0

\* C10 (as claimed): whatever the call, an endpoint leaves Unhealthy only once
\* at least probeAfter has elapsed since its last recorded failure.
C10_LeavesUnhealthyOnlyAfterProbeAfter ==
    [][(prov.state = StateUnhealthy /\ prov'.state # StateUnhealthy) =>
          now - prov.lastFailureTime >= prov.timeout]_vars

\* C40: while a provider is HalfOpen (Probing) its half-open call count is at
\* most halfOpenMaxCalls.
C40_HalfOpenCallsBounded ==
    prov.state = StateHalfOpen => prov.halfOpenCalls <= prov.halfOpenMaxCalls

(***************************************************************************)
(* SpecHealthCheck: IsHealthy at the grain of its lock operations (RLock,  *)
(* RUnlock / Lock / Unlock / RLock) against RecordSuccess and RecordFailure *)
(* of other goroutines, each of which holds the write lock for its body.   *)
(***************************************************************************)
\* The call frame after a step of another goroutine or of the clock: one
\* more instant of the call is observed.
Observe(c, p, t) ==
    IF c.pc \in {"idle", "done"} THEN c
    ELSE [c EXCEPT !.lin = @ \cup {IsHealthy(p, t)}]

HealthInit ==
    /\ \E cb \in CircuitBreakerConfigs : prov = NewProvider(1, 1, cb)
    /\ now = 0
    /\ hist = <<>>
    /\ healthCall = IdleHealthCall
    /\ CursorIdle
    /\ PoolIdle
    /\ ScannerIdle
    /\ FetcherIdle
    /\ LoopIdle
    /\ StreamIdle

\* IsHealthy under its read lock: the answer for Healthy, HalfOpen and
\* Unhealthy within the timeout; otherwise the read lock is released.
IsHealthyRead ==
    /\ healthCall.pc \in {"idle", "done"}
    /\ healthCall' =
          [pc |-> IF prov.state = StateUnhealthy /\ TimeoutPassed(prov, now)
                  THEN "lock" ELSE "done",
           result |-> prov.state # StateUnhealthy,
           lin |-> {IsHealthy(prov, now)}]
    /\ UNCHANGED <<prov, hist, now, cursorVars, poolVars, scannerVars, fetcherVars,
                   streamVars, loopVars>>

\* IsHealthy under the write lock: the re-test and the move to HalfOpen.
IsHealthyLock ==
    /\ healthCall.pc = "lock"
    /\ prov' = IsHealthyState(prov, now)
    /\ healthCall' = [Observe(healthCall, prov', now) EXCEPT !.pc = "rlock"]
    /\ UNCHANGED <<hist, now, cursorVars, poolVars, scannerVars, fetcherVars,
                   streamVars, loopVars>>

\* IsHealthy under the read lock taken again: return p.state == StateHalfOpen.
IsHealthyReturn ==
    /\ healthCall.pc = "rlock"
    /\ healthCall' = [healthCall EXCEPT !.pc = "done",
                                        !.result = (prov.state = StateHalfOpen)]
    /\ UNCHANGED <<prov, hist, now, cursorVars, poolVars, scannerVars, fetcherVars,
                   streamVars, loopVars>>

HealthRecordSuccess ==
    /\ prov.successCount < MaxCalls
    /\ prov' = RecordSuccess(prov)
    /\ healthCall' = Observe(healthCall, prov', now)
    /\ UNCHANGED <<hist, now, cursorVars, poolVars, scannerVars, fetcherVars,
                   streamVars, loopVars>>

HealthRecordFailure ==
    /\ prov.failureCount < MaxCalls
    /\ prov' = RecordFailure(prov, now)
    /\ healthCall' = Observe(healthCall, prov', now)
    /\ UNCHANGED <<hist, now, cursorVars, poolVars, scannerVars, fetcherVars,
                   streamVars, loopVars>>

HealthTick ==
    /\ ClockTick
    /\ healthCall' = Observe(healthCall, prov, now')
    /\ UNCHANGED <<prov, hist, cursorVars, poolVars, scannerVars, fetcherVars,
                   streamVars, loopVars>>

HealthNext ==
    \/ IsHealthyRead
    \/ IsHealthyLock
    \/ IsHealthyReturn
    \/ HealthRecordSuccess
    \/ HealthRecordFailure
    \/ HealthTick

SpecHealthCheck == HealthInit /\ [][HealthNext]_vars

\* C11 (as claimed): what an IsHealthy call returns is what IsHealthy taken
\* as one atomic step would have returned at some instant of the call.
C11_IsHealthyLinearizable ==
    healthCall.pc = "done" => healthCall.result \in healthCall.lin


(***************************************************************************)
(* SpecPool: FilterLogs operations of concurrent callers on one pool.      *)
(***************************************************************************)
PoolInit ==
    /\ \E mr \in ProviderMaxRanges, cb \in PoolBreakerConfigs :
          providers = NewProviderPool(mr, cb)
    /\ poolCurrent = 0
    /\ ops = [o \in OpIds |-> IdleOp]
    /\ now = 0
    /\ BreakerIdle
    /\ CursorIdle
    /\ ScannerIdle
    /\ FetcherIdle
    /\ LoopIdle
    /\ StreamIdle

\* A caller enters FilterLogs(ctx, query); span records the block span the
\* query asks for, blockRange is the local the code computes from it.
FilterLogsStart(o) ==
    /\ ops[o].pc = "idle"
    /\ \A q \in OpIds : q < o => ops[q].pc # "idle"
    /\ \E f \in 1..MaxSpan, t \in 1..MaxSpan :
          /\ f <= t
          /\ ops' = [ops EXCEPT ![o] = [IdleOp EXCEPT !.pc = "loop",
                                          !.blockRange = BlockRange(f, t),
                                          !.span = t - f + 1]]
    /\ UNCHANGED <<providers, poolCurrent, now, breakerVars, cursorVars, scannerVars, fetcherVars,
                   streamVars, loopVars>>

\* One pass of the attempt loop up to the RPC: SelectProvider, the MaxRange
\* test, the already-attempted test.
FilterLogsAttempt(o) ==
    LET op == ops[o]
        r == SelectProvider(providers, poolCurrent, now)
        blockRange == op.blockRange
    IN  /\ op.pc = "loop"
        /\ op.attempt < 2 * Len(providers)
        /\ providers' = AfterHealthChecks(providers, now)
        /\ poolCurrent' = r.current
        /\ ops' = [ops EXCEPT ![o] =
              IF r.err
              THEN [op EXCEPT !.pc = "done", !.result = "noHealthy"]
              ELSE IF blockRange > providers[r.sel].MaxRange
              THEN [op EXCEPT !.attempted = @ \cup {r.sel},
                              !.skipped = @ \cup {r.sel},
                              !.attempt = @ + 1]
              ELSE IF r.sel \in op.attempted /\ op.attempt < Len(providers)
              THEN [op EXCEPT !.attempt = @ + 1]
              ELSE [op EXCEPT !.pc = "rpc", !.sel = r.sel,
                              !.invoked = @ \cup {r.sel},
                              !.calls = Append(@, [sel |-> r.sel,
                                                   attempt |-> op.attempt,
                                                   res |-> "pending"])]]
        /\ UNCHANGED <<now, breakerVars, cursorVars, scannerVars, fetcherVars, streamVars,
            loopVars>>

\* The provider's FilterLogs RPC returns: success (only while the caller's
\* context is live) or an error (provider error, timeout, cancelled context).
FilterLogsRpcReturn(o) ==
    LET op == ops[o] IN
    /\ op.pc = "rpc"
    /\ \E ok \in BOOLEAN :
          /\ ok => ~op.ctxDone
          /\ IF ok
             THEN /\ providers' = [providers EXCEPT ![op.sel] = RecordSuccess(@)]
                  /\ ops' = [ops EXCEPT ![o] = OpAfterSuccess(op)]
             ELSE /\ providers' = [providers EXCEPT ![op.sel] = RecordFailure(@, now)]
                  /\ ops' = [ops EXCEPT ![o] =
                        IF op.ctxDone
                        THEN [op EXCEPT !.pc = "done", !.result = "cancelled",
                                        !.attempted = @ \cup {op.sel},
                                        !.calls[Len(op.calls)].res = "err"]
                        ELSE [op EXCEPT !.pc = "loop", !.attempt = @ + 1,
                                        !.attempted = @ \cup {op.sel},
                                        !.calls[Len(op.calls)].res = "err"]]
    /\ UNCHANGED <<poolCurrent, now, breakerVars, cursorVars, scannerVars, fetcherVars,
                   streamVars, loopVars>>

\* The attempt loop ends: "all providers failed".
FilterLogsExhausted(o) ==
    /\ ops[o].pc = "loop"
    /\ ops[o].attempt >= 2 * Len(providers)
    /\ ops' = [ops EXCEPT ![o] = [@ EXCEPT !.pc = "done", !.result = "allFailed"]]
    /\ UNCHANGED <<providers, poolCurrent, now, breakerVars, cursorVars, scannerVars, fetcherVars,
                   streamVars, loopVars>>

\* The caller's context is cancelled or passes its deadline.
CtxDone(o) ==
    /\ ops[o].pc \in {"loop", "rpc"}
    /\ ~ops[o].ctxDone
    /\ ops' = [ops EXCEPT ![o] = [@ EXCEPT !.ctxDone = TRUE]]
    /\ UNCHANGED <<providers, poolCurrent, now, breakerVars, cursorVars, scannerVars, fetcherVars,
                   streamVars, loopVars>>

PoolTick ==
    /\ now < MaxPoolTime
    /\ ClockTick
    /\ UNCHANGED <<poolVars, breakerVars, cursorVars, scannerVars, fetcherVars,
                   streamVars, loopVars>>

PoolNext ==
    \/ \E o \in OpIds : FilterLogsStart(o)
    \/ \E o \in OpIds : FilterLogsAttempt(o)
    \/ \E o \in OpIds : FilterLogsRpcReturn(o)
    \/ \E o \in OpIds : FilterLogsExhausted(o)
    \/ \E o \in OpIds : CtxDone(o)
    \/ PoolTick

SpecPool == PoolInit /\ [][PoolNext]_vars

(***************************************************************************)
(* Claims about the pool (SpecPool).                                        *)
(***************************************************************************)
\* C6: in a FilterLogs operation no provider whose MaxRange is smaller than
\* the requested span toBlock - fromBlock + 1 has its RPC invoked, and the
\* logs returned never come from such a provider.
C6_NeverServedBeyondMaxRange ==
    \A o \in OpIds :
        LET span == ops[o].span IN
        /\ \A i \in ops[o].invoked : providers[i].MaxRange >= span
        /\ ops[o].result = "ok" => providers[ops[o].served].MaxRange >= span

\* C6 witness: an operation selected a provider too small for its span,
\* passed it over, and returned logs from a provider that accepts the span.
C6_Witness ==
    \E o \in OpIds :
        /\ ops[o].result = "ok"
        /\ ops[o].skipped # {}
        /\ \A i \in ops[o].skipped :
              providers[i].MaxRange < ops[o].span
        /\ ops[o].served \notin ops[o].skipped

\* The provider has tripped and less than its timeout (probeAfter) has
\* passed since its last failure.
WithinProbeDelay(p, t) ==
    /\ p.state # StateHealthy
    /\ p.lastFailureTime >= 0
    /\ t - p.lastFailureTime < p.timeout

CallsOn(op, i, res) ==
    Cardinality({k \in 1..Len(op.calls) : op.calls[k].sel = i /\ op.calls[k].res = res})

InvocationsOf(op, i) == {k \in 1..Len(op.calls) : op.calls[k].sel = i}

CursorInit ==
    /\ processedColl = {}
    /\ redisKey = NoKey
    /\ cacheKind \in {"nil", "enabled", "disabled"}
    /\ warmups = {}
    /\ acked = {}
    /\ lastRead = NoRead
    /\ lastWrite = NoWrite
    /\ now = 0
    /\ BreakerIdle
    /\ PoolIdle
    /\ ScannerIdle
    /\ FetcherIdle
    /\ LoopIdle
    /\ StreamIdle

CursorWrite ==
    \E n \in 0..MaxCursor, redisUp \in BOOLEAN, mongoOk \in BOOLEAN :
        LET r == MongoSetLastProcessedBlock(cacheKind, processedColl, redisKey,
                                            n, redisUp, mongoOk)
        IN  /\ processedColl' = r.coll
            /\ redisKey' = r.key
            /\ acked' = IF r.err THEN acked ELSE acked \cup {n}
            /\ lastWrite' = [called |-> TRUE, n |-> n, durable |-> mongoOk,
                             cacheOk |-> ~RedisSetLastProcessedBlock(cacheKind,
                                             redisKey, n, redisUp).err,
                             err |-> r.err, keyBefore |-> redisKey,
                             keyAfter |-> r.key]
            /\ UNCHANGED <<cacheKind, warmups, lastRead, now, breakerVars, poolVars, scannerVars, fetcherVars,
                   streamVars, loopVars>>

CursorRead ==
    \E redisUp \in BOOLEAN, mongoOk \in BOOLEAN :
        LET r == MongoGetLastProcessedBlock(cacheKind, processedColl, redisKey,
                                            redisUp, mongoOk)
        IN  /\ lastRead' = [ok |-> ~r.err, val |-> r.val, floor |-> SetMax(acked),
                            durable |-> FindLastProcessed(processedColl),
                            cache |-> r.cache]
            /\ warmups' = warmups \cup r.warm
            /\ UNCHANGED <<processedColl, redisKey, cacheKind, acked, lastWrite, now, breakerVars, poolVars, scannerVars, fetcherVars,
                   streamVars, loopVars>>

\* The goroutine started at mongo.go GetLastProcessedBlock: the cache write
\* of the value read, under context.Background(), its error ignored.
CursorWarmUp ==
    \E v \in warmups, redisUp \in BOOLEAN :
        /\ redisKey' = RedisSetLastProcessedBlock(cacheKind, redisKey, v, redisUp).key
        /\ warmups' = warmups \ {v}
        /\ UNCHANGED <<processedColl, cacheKind, acked, lastRead, lastWrite, now, breakerVars, poolVars, scannerVars, fetcherVars,
                   streamVars, loopVars>>

CursorNext ==
    \/ CursorWrite
    \/ CursorRead
    \/ CursorWarmUp

SpecCursor == CursorInit /\ [][CursorNext]_vars

(***************************************************************************)
(* Claims about the cursor store (SpecCursor).                              *)
(***************************************************************************)
\* C2 (as claimed): a Read that returns a value returns one >= every n whose
\* Write(n) had returned success before the Read, whatever the cache did.
C2_ReadAtLeastWritten ==
    lastRead.ok => lastRead.val >= lastRead.floor

\* C20: SetLastProcessedBlock(n) returns nil exactly when the write to the
\* processed_blocks collection succeeded: a failed cache write does not make
\* it fail, and when the collection write fails it returns an error and
\* leaves the cache key as it was.
C20_WriteSucceedsIffDurable ==
    lastWrite.called =>
        /\ (~lastWrite.err) <=> lastWrite.durable
        /\ ~lastWrite.durable => lastWrite.keyAfter = lastWrite.keyBefore

\* A call whose collection write succeeded and whose cache write failed
\* returned nil, after an earlier call had been acknowledged.
C20_Witness ==
    /\ lastWrite.called /\ cacheKind = "enabled"
    /\ lastWrite.durable /\ ~lastWrite.cacheOk /\ ~lastWrite.err
    /\ lastWrite.keyAfter = lastWrite.keyBefore
    /\ lastWrite.keyBefore \notin {NoKey, FormatUint(lastWrite.n)}

\* C3 (as claimed): on a cache miss or a cache error, a Read that returns a
\* value returns the durable store's latest cursor.
C3_MissOrErrorReadsDurable ==
    (lastRead.ok /\ lastRead.cache \in {"miss", "error"}) =>
        lastRead.val = lastRead.durable

(***************************************************************************)
(* SpecScanner: one IngestionService process at a time over a growing      *)
(* chain, a transfers collection and the cursor store. Every RPC and store  *)
(* call is free to fail; the process may stop anywhere and be started       *)
(* again with the same configuration.                                       *)
(***************************************************************************)
ScannerInit ==
    /\ \E env \in BatchEnvs, startBlock \in StartBlockEnvs,
          resetStartBlock \in BOOLEAN, enableStream \in BOOLEAN :
          cfg = Load(env, startBlock, resetStartBlock, enableStream)
    /\ svc = NewIngestionService(cfg)
    /\ scan = NewScan
    /\ tip = 0
    /\ transfersColl = {}
    /\ published = {}
    /\ returned = {}
    /\ processedColl = {}
    /\ redisKey = NoKey
    /\ cacheKind \in {"nil", "enabled"}
    /\ warmups = {}
    /\ acked = {}
    /\ lastRead = NoRead
    /\ lastWrite = NoWrite
    /\ now = 0
    /\ BreakerIdle
    /\ PoolIdle
    /\ FetcherIdle
    /\ LoopIdle
    /\ StreamIdle

\* Start up to its loop: currentBlock from START_BLOCK or from the cursor.
ScannerStart ==
    /\ scan.pc = "start"
    /\ \E redisUp \in BOOLEAN, mongoOk \in BOOLEAN :
          LET r == MongoGetLastProcessedBlock(cacheKind, processedColl, redisKey,
                                              redisUp, mongoOk)
              st == StartBlockOf(cfg, r)
          IN  /\ warmups' = IF cfg.ResetStartBlock THEN warmups ELSE warmups \cup r.warm
              /\ lastRead' = IF cfg.ResetStartBlock THEN lastRead
                             ELSE [ok |-> ~r.err, val |-> r.val, floor |-> SetMax(acked),
                                   durable |-> FindLastProcessed(processedColl),
                                   cache |-> r.cache]
              /\ scan' = IF st.err THEN [scan EXCEPT !.pc = "exited"]
                         ELSE [scan EXCEPT !.pc = "wait",
                                           !.currentBlock = st.currentBlock,
                                           !.first = st.currentBlock]
    /\ UNCHANGED <<cfg, svc, tip, transfersColl, published, returned, processedColl,
                   redisKey, cacheKind, acked, lastWrite, now, breakerVars, poolVars,
                   fetcherVars, streamVars, loopVars>>

\* The ticker fires: processBlocks up to the call of FetchTransferLogs.
TickTip ==
    /\ scan.pc = "wait"
    /\ \E ok \in BOOLEAN :
          LET fromBlock == scan.currentBlock
              latestBlock == tip
              batchSize == BatchSize(svc, cfg)
          IN  scan' =
                IF ~ok
                THEN [scan EXCEPT !.fromBlock = fromBlock, !.outcome = "tipError",
                                  !.cause = "none"]
                ELSE IF NoNewBlocks(fromBlock, latestBlock)
                THEN [scan EXCEPT !.fromBlock = fromBlock, !.latestBlock = latestBlock,
                                  !.outcome = "empty", !.cause = "none"]
                ELSE [scan EXCEPT !.pc = "fetch", !.fromBlock = fromBlock,
                                  !.latestBlock = latestBlock,
                                  !.batchSize = batchSize,
                                  !.toBlock = ToBlock(fromBlock, batchSize, latestBlock),
                                  !.transfers = {}, !.outcome = "running",
                                  !.cause = "none"]
    /\ UNCHANGED <<cfg, svc, tip, transfersColl, published, returned, cursorVars,
                   now, breakerVars, poolVars, fetcherVars, streamVars,
                   loopVars>>

\* FetchTransferLogs returns: the log query failed, a block header could not
\* be fetched, or the parsed transfers.
TickFetch ==
    /\ scan.pc = "fetch"
    /\ \E res \in {"logsError", "headerError", "ok"} :
          LET logs == FilterLogs(scan.fromBlock, scan.toBlock) IN
          /\ res = "headerError" => logs # {}
          /\ (res # "ok" /\ cfg.AdaptiveBatch) => svc.failureCount < MaxFailures
          /\ returned' = IF res = "logsError" THEN returned ELSE returned \cup logs
          /\ svc' = IF res = "ok" THEN svc ELSE OnFailure(svc, cfg)
          /\ scan' =
                IF res # "ok"
                THEN [scan EXCEPT !.pc = "wait", !.outcome = "fetchError",
                                  !.streak = 0, !.cause = res]
                ELSE [scan EXCEPT !.transfers = ParseTransferLogs(logs),
                                  !.pc = IF ParseTransferLogs(logs) = {}
                                         THEN "cursor" ELSE "insert"]
    /\ UNCHANGED <<cfg, tip, transfersColl, published, cursorVars, now, breakerVars,
                   poolVars, fetcherVars, streamVars, loopVars>>

\* InsertTransfers returns: nil, or an error after an unordered bulk write
\* that wrote only part of the batch.
TickInsert ==
    /\ scan.pc = "insert"
    /\ \E ok \in BOOLEAN :
          IF ok
          THEN /\ transfersColl' = InsertTransfers(transfersColl, scan.transfers)
               /\ scan' = [scan EXCEPT !.pc = "publish"]
               /\ svc' = svc
          ELSE /\ cfg.AdaptiveBatch => svc.failureCount < MaxFailures
               /\ \E part \in SUBSET scan.transfers :
                     /\ part # scan.transfers
                     /\ transfersColl' = transfersColl \cup part
               /\ scan' = [scan EXCEPT !.pc = "wait", !.outcome = "insertError",
                                        !.streak = 0]
               /\ svc' = OnFailure(svc, cfg)
    /\ UNCHANGED <<cfg, tip, published, returned, cursorVars, now, breakerVars,
                   poolVars, fetcherVars, streamVars, loopVars>>

\* The publish loop.
TickPublish ==
    /\ scan.pc = "publish"
    /\ published' = PublishAll(published, scan.transfers, cfg)
    /\ scan' = [scan EXCEPT !.pc = "cursor",
                            !.pub = PublishAll(@, scan.transfers, cfg)]
    /\ UNCHANGED <<cfg, svc, tip, transfersColl, returned, cursorVars, now,
                   breakerVars, poolVars, fetcherVars, streamVars, loopVars>>

\* SetLastProcessedBlock(toBlock) returns, and with it the tick.
TickSetCursor ==
    /\ scan.pc = "cursor"
    /\ \E redisUp \in BOOLEAN, mongoOk \in BOOLEAN :
          LET r == MongoSetLastProcessedBlock(cacheKind, processedColl, redisKey,
                                              scan.toBlock, redisUp, mongoOk)
          IN  /\ processedColl' = r.coll
              /\ redisKey' = r.key
              /\ svc' = IF r.err THEN svc ELSE OnSuccess(svc, cfg)
              /\ scan' = IF r.err
                         THEN [scan EXCEPT !.pc = "wait", !.outcome = "cursorError",
                                           !.streak = 0]
                         ELSE [scan EXCEPT !.pc = "wait", !.outcome = "ok",
                                           !.currentBlock = NextBlock(scan.toBlock),
                                           !.ranges = Append(@, <<scan.fromBlock,
                                                                  scan.toBlock>>),
                                           !.streak =
                                              IF OnSuccess(svc, cfg).currentBatchSize
                                                    # svc.currentBatchSize
                                              THEN 0 ELSE @ + 1]
    /\ UNCHANGED <<cfg, tip, transfersColl, published, returned, cacheKind, warmups,
                   acked, lastRead, lastWrite, now, breakerVars, poolVars, fetcherVars,
                   streamVars, loopVars>>

\* The process stops (cancellation, crash, Start's error) and a new one is
\* started with the same configuration.
Restart ==
    /\ scan.pc # "start"
    /\ scan' = NewScan
    /\ svc' = NewIngestionService(cfg)
    /\ UNCHANGED <<cfg, tip, transfersColl, published, returned, cursorVars, now,
                   breakerVars, poolVars, fetcherVars, streamVars, loopVars>>

\* A block is added to the chain.
ChainGrow ==
    /\ tip < MaxTip
    /\ tip' = tip + 1
    /\ UNCHANGED <<cfg, svc, scan, transfersColl, published, returned, cursorVars,
                   now, breakerVars, poolVars, fetcherVars, streamVars,
                   loopVars>>

ScannerNext ==
    \/ ScannerStart
    \/ TickTip
    \/ TickFetch
    \/ TickInsert
    \/ TickPublish
    \/ TickSetCursor
    \/ CursorWarmUp
    \/ Restart
    \/ ChainGrow

SpecScanner == ScannerInit /\ [][ScannerNext]_vars

C4_CursorMonotone ==
    [][(scan.pc # "start" /\ scan'.pc # "start") =>
          IF scan.pc = "cursor" /\ scan'.outcome = "ok"
          THEN /\ scan'.currentBlock = scan.toBlock + 1
               /\ scan'.currentBlock > scan.fromBlock
               /\ scan.fromBlock = scan.currentBlock
          ELSE scan'.currentBlock = scan.currentBlock]_vars

\* C4 witness: a tick over [fromBlock, toBlock] has completed and moved
\* currentBlock to toBlock + 1, after an earlier tick of the run had failed.
C4_Witness ==
    /\ scan.pc = "wait"
    /\ scan.outcome = "ok"
    /\ scan.currentBlock = scan.toBlock + 1
    /\ scan.toBlock > scan.fromBlock
    /\ cfg.AdaptiveBatch /\ svc.currentBatchSize < cfg.BlockBatchSize

\* C5 (as claimed): in adaptive mode the batch size a tick uses is within
\* [BatchMinSize, BatchMaxSize].
C5_BatchWithinMinMax ==
    (cfg.AdaptiveBatch /\ scan.pc \in {"fetch", "insert", "publish", "cursor"}) =>
        /\ cfg.BatchMinSize <= scan.batchSize
        /\ scan.batchSize <= cfg.BatchMaxSize

\* C21 (as claimed): when SetLastProcessedBlock(toBlock) fails, the tick is
\* handled as an adaptive failure: currentBlock stays where it was and, in
\* adaptive mode, the batch size becomes max(B / backoff, min) and the
\* success streak is reset.
C21_CursorWriteFailureIsAdaptiveFailure ==
    [][(scan.pc = "cursor" /\ scan'.pc = "wait" /\ scan'.outcome = "cursorError") =>
          /\ scan'.currentBlock = scan.currentBlock
          /\ cfg.AdaptiveBatch =>
                /\ svc'.currentBatchSize =
                      Max2(svc.currentBatchSize \div cfg.BatchFailureBackoff,
                           cfg.BatchMinSize)
                /\ svc'.successCount = 0]_vars

\* C22: in adaptive mode a tick that fails in FetchTransferLogs (log query
\* or block header) or in InsertTransfers sets the batch size to
\* max(B / backoff, min) in that very tick and resets the success streak,
\* whatever the number of failures before it.
C22_FailureShrinksAtOnce ==
    [][(cfg.AdaptiveBatch /\ scan.pc \in {"fetch", "insert"} /\ scan'.pc = "wait"
          /\ scan'.outcome \in {"fetchError", "insertError"}) =>
          /\ svc'.currentBatchSize =
                Max2(svc.currentBatchSize \div cfg.BatchFailureBackoff,
                     cfg.BatchMinSize)
          /\ svc'.successCount = 0]_vars

\* A tick that used batch size 5, what an earlier failure had left of 10,
\* failed in its turn and left 2.
C22_Witness ==
    /\ cfg.AdaptiveBatch
    /\ scan.pc = "wait" /\ scan.outcome \in {"fetchError", "insertError"}
    /\ scan.batchSize = 5
    /\ svc.currentBatchSize = 2
    /\ svc.successCount = 0

\* C23 (as claimed): in adaptive mode the batch size goes up only on a
\* successful tick that is the BatchSuccessStreak-th in a row since the last
\* adjustment or failure, and then to min(2B, max); a successful tick below
\* the streak leaves it unchanged.
C23_GrowsOnlyOnFullStreak ==
    [][(cfg.AdaptiveBatch /\ scan.pc = "cursor" /\ scan'.pc = "wait"
          /\ scan'.outcome = "ok") =>
          /\ svc'.currentBatchSize > svc.currentBatchSize =>
                /\ scan.streak + 1 = cfg.BatchSuccessStreak
                /\ svc'.currentBatchSize =
                      Min2(2 * svc.currentBatchSize, cfg.BatchMaxSize)
          /\ scan.streak + 1 < cfg.BatchSuccessStreak =>
                svc'.currentBatchSize = svc.currentBatchSize]_vars

\* C24: a tick that finds currentBlock > latestBlock makes no log query, no
\* header fetch, no insert, no cursor write and no publish, and leaves
\* currentBlock, the batch size and the streak counters as they were.
C24_EmptyRangeTouchesNothing ==
    [][(scan.pc = "wait" /\ scan.currentBlock > tip /\ scan' # scan
          /\ scan'.pc # "start") =>
          /\ scan'.pc = "wait"
          /\ scan'.currentBlock = scan.currentBlock
          /\ svc' = svc
          /\ UNCHANGED <<returned, transfersColl, published, processedColl,
                         redisKey>>]_vars

\* After a tick that wrote records and the cursor, a tick found no new
\* block and returned, the success count of the earlier tick still there.
C24_Witness ==
    /\ scan.pc = "wait" /\ scan.outcome = "empty"
    /\ scan.currentBlock > tip
    /\ scan.currentBlock = NextBlock(scan.toBlock)
    /\ scan.toBlock \in processedColl
    /\ transfersColl # {}
    /\ cfg.AdaptiveBatch /\ svc.successCount > 0

\* C30: Start sets the first range's beginning to startBlock when
\* resetStartBlock is true, and otherwise to persisted + 1 when the cursor read
\* returned persisted > 0 and to startBlock when it returned 0; so a start
\* without reset over a durably written cursor begins at that cursor + 1: no
\* block at or below it is requested again and none above it is skipped.
C30_StartupResumesAfterCursor ==
    [][(scan.pc = "start" /\ scan'.pc = "wait") =>
          /\ cfg.ResetStartBlock => scan'.currentBlock = cfg.StartBlock
          /\ ~cfg.ResetStartBlock =>
                /\ lastRead'.ok
                /\ scan'.currentBlock = IF lastRead'.val > 0 THEN lastRead'.val + 1
                                        ELSE cfg.StartBlock
                /\ processedColl # {} => scan'.currentBlock = SetMax(processedColl) + 1]_vars

\* C31: a tick in which a block header fetch fails ends as a failed tick: it
\* writes no record to the transfers collection, publishes none, neither
\* writes the cursor nor advances it, and in adaptive mode the failure
\* adjustment is applied.
C31_HeaderFailureFailsTick ==
    [][(scan.pc = "fetch" /\ scan' # scan /\ scan'.cause = "headerError") =>
          /\ scan'.pc = "wait" /\ scan'.outcome = "fetchError"
          /\ scan'.currentBlock = scan.currentBlock
          /\ UNCHANGED <<transfersColl, published, processedColl, redisKey>>
          /\ IF cfg.AdaptiveBatch
             THEN /\ svc'.currentBatchSize =
                        Max2(svc.currentBatchSize \div cfg.BatchFailureBackoff,
                             cfg.BatchMinSize)
                  /\ svc'.successCount = 0
             ELSE svc' = svc]_vars

\* In adaptive mode a tick over a range with transfers failed on a block
\* header after an earlier tick had written and published records: the
\* batch size went from 10 to 5, the cursor and the records stayed.
C31_Witness ==
    /\ cfg.AdaptiveBatch /\ cfg.StreamingEnabled
    /\ scan.pc = "wait" /\ scan.cause = "headerError"
    /\ scan.batchSize = 10 /\ svc.currentBatchSize = 5
    /\ transfersColl # {} /\ published # {}
    /\ scan.currentBlock = SetMax(processedColl) + 1

\* C36: a process hands each record to Publish at most once: the publish
\* loop of a tick meets no (txHash, logIndex) the same process has published
\* before, also when the tick repeats a range whose cursor write failed.
C36_PublishedAtMostOnce ==
    [][(scan.pc = "publish" /\ scan'.pc = "cursor" /\ cfg.StreamingEnabled) =>
          \A t \in scan.transfers : \A r \in scan.pub :
             TransferKey(r) # TransferKey(t)]_vars

\* C38: the ranges of a process's successful ticks tile the chain from the
\* block Start began at: the first begins at the startup block and each other
\* one at the end of the one before it + 1, with fromBlock <= toBlock <= tip;
\* a tick under way begins at currentBlock and covers fromBlock..toBlock with
\* toBlock <= tip and at most batchSize blocks; currentBlock is the end of the
\* last successful range + 1 through every failed tick. So no block from the
\* startup block up to currentBlock - 1 is skipped or covered by two
\* successful ticks.
C38_RangesTile ==
    LET r == scan.ranges IN
    /\ \A i \in 1..Len(r) :
          /\ r[i][1] <= r[i][2] /\ r[i][2] <= tip
          /\ r[i][1] = IF i = 1 THEN scan.first ELSE r[i - 1][2] + 1
    /\ scan.pc \in {"wait", "fetch", "insert", "publish", "cursor"} =>
          scan.currentBlock = IF r = <<>> THEN scan.first ELSE r[Len(r)][2] + 1
    /\ scan.pc \in {"fetch", "insert", "publish", "cursor"} =>
          /\ scan.fromBlock = scan.currentBlock
          /\ scan.fromBlock <= scan.toBlock /\ scan.toBlock <= tip
          /\ scan.toBlock - scan.fromBlock + 1 <= scan.batchSize

\* Two successful ticks of a process in adaptive mode: the first covered
\* blocks 0..1 with batch size 2, a failed tick then halved the batch size,
\* and the retry from block 2 covered 2..2 with batch size 1.
C38_Witness ==
    /\ cfg.AdaptiveBatch /\ cfg.BlockBatchSize = 2
    /\ scan.ranges = << <<0, 1>>, <<2, 2>> >>
    /\ scan.batchSize = 1
    /\ scan.pc = "wait" /\ scan.currentBlock = 3

(***************************************************************************)
(* SpecFetcher: one ingestion goroutine calls FetchTransferLogs and then   *)
(* InsertTransfers, again and again over the same or other ranges; the     *)
(* header goroutines of a call fill the BlockHeaderCache, and those a call *)
(* left behind when it returned early keep running.                        *)
(***************************************************************************)
FetcherInit ==
    /\ now = 0
    /\ BreakerIdle
    /\ CursorIdle
    /\ PoolIdle
    /\ ScannerIdle
    /\ FetcherIdle
    /\ LoopIdle
    /\ StreamIdle

\* FetchTransferLogs returns to processBlocks: the header goroutines still
\* running are left behind, the channel is dropped.
Returned(f, result) ==
    [f EXCEPT !.pc = "idle", !.result = result, !.stray = f.stray \cup f.running,
              !.running = {}, !.blockChan = {}, !.toCollect = 0]

\* The parse loop of FetchTransferLogs.
AfterParse(f) ==
    IF MissingTimestamp(f.logs, f.blockTimestamps)
    THEN Returned(f, "missingTimestamp")
    ELSE [f EXCEPT !.pc = "insert",
                   !.transfers = ParseWithTimestamps(f.logs, f.blockTimestamps, f.call)]

\* FetchTransferLogs(fromBlock, toBlock) up to the start of the header
\* goroutines; rpcOk tells whether FilterLogs answered.
FetchStart(r, rpcOk) ==
    /\ fetch.pc = "idle"
    /\ fetch.call < MaxIngests
    /\ LET logs == FilterLogs(r[1], r[2])
           base == [IdleFetch EXCEPT !.call = fetch.call + 1, !.stray = fetch.stray,
                                     !.before = transfersColl]
           bts  == CachedTimestamps(headerCache, logs)
           todo == BlocksToFetch(headerCache, logs)
           f    == [base EXCEPT !.logs = logs, !.blockTimestamps = bts,
                                !.cached = DOMAIN bts]
       IN  fetch' = IF ~rpcOk THEN Returned(base, "fetchErr")
                    ELSE IF logs = {} THEN Returned(base, "empty")
                    ELSE IF todo = {} THEN AfterParse(f)
                    ELSE [f EXCEPT !.pc = "collect", !.running = todo,
                                   !.toCollect = Cardinality(todo)]
    /\ UNCHANGED <<now, breakerVars, cursorVars, poolVars, scannerVars,
                   headerCache, fetchedHeaders, streamVars, loopVars>>

\* A header goroutine of the call in progress: BlockByNumber(b), then on
\* success cache.Set and the result on blockChan, on failure the error.
HeaderGoroutine(b, ok) ==
    /\ b \in fetch.running
    /\ fetch' = [fetch EXCEPT !.running = @ \ {b},
                   !.blockChan = @ \cup {[blockNum |-> b, err |-> ~ok,
                        timestamp |-> IF ok THEN BlockTime(b) ELSE 0]}]
    /\ headerCache' = IF ok THEN CacheSet(headerCache, b, BlockTime(b)) ELSE headerCache
    /\ fetchedHeaders' = IF ok THEN fetchedHeaders \cup {<<b, BlockTime(b)>>}
                         ELSE fetchedHeaders
    /\ UNCHANGED <<now, breakerVars, cursorVars, poolVars, scannerVars, streamVars,
            loopVars>>

\* A header goroutine left behind by a call that returned on an error.
StrayGoroutine(b, ok) ==
    /\ b \in fetch.stray
    /\ fetch' = [fetch EXCEPT !.stray = @ \ {b}]
    /\ headerCache' = IF ok THEN CacheSet(headerCache, b, BlockTime(b)) ELSE headerCache
    /\ fetchedHeaders' = IF ok THEN fetchedHeaders \cup {<<b, BlockTime(b)>>}
                         ELSE fetchedHeaders
    /\ UNCHANGED <<now, breakerVars, cursorVars, poolVars, scannerVars, streamVars,
            loopVars>>

\* One turn of the collecting loop; after the last result, the parse loop.
Collect ==
    /\ fetch.pc = "collect"
    /\ \E res \in fetch.blockChan :
         LET f == [fetch EXCEPT !.blockChan = @ \ {res},
                      !.toCollect = @ - 1,
                      !.blockTimestamps = CacheSet(@, res.blockNum, res.timestamp)]
         IN  fetch' = IF res.err THEN Returned(fetch, "headerErr")
                      ELSE IF f.toCollect = 0 THEN AfterParse(f)
                      ELSE f
    /\ UNCHANGED <<now, breakerVars, cursorVars, poolVars, scannerVars,
                   headerCache, fetchedHeaders, streamVars, loopVars>>

\* processBlocks hands the transfers to InsertTransfers. On a fault other
\* than a duplicate key the unordered bulk write may have written any part.
FetchInsert(fault) ==
    /\ fetch.pc = "insert"
    /\ LET err == InsertTransfersErr(transfersColl, fetch.transfers, fault)
       IN  /\ fetch' = [Returned(fetch, IF err THEN "insertErr" ELSE "ok")
                           EXCEPT !.fault = fault, !.before = transfersColl]
           /\ IF err
              THEN \E part \in SUBSET fetch.transfers :
                      transfersColl' = InsertTransfers(transfersColl, part)
              ELSE transfersColl' = InsertTransfers(transfersColl, fetch.transfers)
    /\ UNCHANGED <<now, breakerVars, cursorVars, poolVars, cfg, svc, scan, tip,
                   published, returned, headerCache, fetchedHeaders,
                   streamVars, loopVars>>

\* A cache entry passes its TTL: Get misses it and Delete removes it.
CacheExpire(b) ==
    /\ b \in DOMAIN headerCache
    /\ headerCache' = CacheDelete(headerCache, b)
    /\ UNCHANGED <<now, breakerVars, cursorVars, poolVars, scannerVars,
                   fetch, fetchedHeaders, streamVars, loopVars>>

FetcherNext ==
    \/ \E r \in FetchRanges, rpcOk \in BOOLEAN : FetchStart(r, rpcOk)
    \/ \E b \in 0..MaxTip, ok \in BOOLEAN : HeaderGoroutine(b, ok)
    \/ \E b \in 0..MaxTip, ok \in BOOLEAN : StrayGoroutine(b, ok)
    \/ Collect
    \/ \E fault \in BOOLEAN : FetchInsert(fault)
    \/ \E b \in 0..MaxTip : CacheExpire(b)

SpecFetcher == FetcherInit /\ [][FetcherNext]_vars

\* C18: every record in the transfers collection carries the timestamp of a
\* header that was fetched successfully for the record's own block, whether
\* it came straight from the fetch or through the BlockHeaderCache; a log
\* whose block has no timestamp is never written.
C18_TimestampFromFetchedHeader ==
    \A t \in transfersColl : <<t.blockNumber, t.timestamp>> \in fetchedHeaders

\* A call wrote records for two blocks, one timestamp taken from the cache
\* and one from a header fetched by the call itself.
C18_Witness ==
    /\ fetch.pc = "idle" /\ fetch.result = "ok"
    /\ \E t \in fetch.transfers : t \in transfersColl /\ t.blockNumber \in fetch.cached
    /\ \E t \in fetch.transfers : t \in transfersColl /\ t.blockNumber \notin fetch.cached

\* The last call handed InsertTransfers a batch whose every (txHash,
\* logIndex) was in the collection already, with no fault but the duplicates.
Reingested ==
    /\ fetch.pc = "idle" /\ fetch.result \in {"ok", "insertErr"}
    /\ ~fetch.fault /\ fetch.transfers # {}
    /\ \A t \in fetch.transfers :
          \E r \in fetch.before : TransferKey(r) = TransferKey(t)

\* C19: ingesting a block range again leaves the persisted set as it was:
\* no two records of the collection share (txHash, logIndex), and the
\* second bulk write returns success without adding a record.
C19_ReingestAddsNothing ==
    /\ \A r, t \in transfersColl : TransferKey(r) = TransferKey(t) => r = t
    /\ Reingested => fetch.result = "ok" /\ transfersColl = fetch.before

\* A range was ingested a second time, with freshly built records, and
\* InsertTransfers returned nil.
C19_Witness ==
    /\ Reingested /\ fetch.result = "ok"
    /\ transfersColl # {}
    /\ \A t \in fetch.transfers : t \notin fetch.before

(***************************************************************************)
(* SpecStream: one goroutine publishes transfers 1, 2, ... while            *)
(* connections subscribe, receive or stop receiving, and clean up.         *)
(***************************************************************************)
StreamInit ==
    /\ \E bufferSize \in BufferSizes : stream = NewStream(bufferSize)
    /\ chans = [c \in ClientIds |-> NoChan]
    /\ publisher = IdlePublisher
    /\ handlers = [c \in ClientIds |-> NewHandler]
    /\ drains = [c \in ClientIds |-> NoDrain]
    /\ pubLog = <<>>
    /\ now = 0
    /\ BreakerIdle
    /\ CursorIdle
    /\ PoolIdle
    /\ ScannerIdle
    /\ FetcherIdle
    /\ LoopIdle

\* The records of the latest run of Publish calls that saw no client.
RECURSIVE TrailingUnseen(_)
TrailingUnseen(log) ==
    IF log = <<>> \/ log[Len(log)].clients # {} THEN <<>>
    ELSE Append(TrailingUnseen(SubSeq(log, 1, Len(log) - 1)), log[Len(log)].t)

\* The Publish calls made after the latest Subscribe.
SinceLastSubscribe ==
    LET last == CHOOSE n \in {handlers[c].at : c \in ClientIds} :
                    \A c \in ClientIds : handlers[c].at <= n
    IN  SubSeq(pubLog, last + 1, Len(pubLog))

\* Publish(transfer) is called and arrives at s.mu.RLock().
PublishCall ==
    /\ publisher.pc = "idle"
    /\ publisher.count < MaxPublishes
    /\ publisher' = [pc |-> "rlock", t |-> publisher.count + 1,
                     count |-> publisher.count + 1]
    /\ UNCHANGED <<stream, chans, handlers, drains, pubLog, now, breakerVars,
                   cursorVars, poolVars, scannerVars, fetcherVars, loopVars>>

\* Publish takes the read lock.
PublishRLock ==
    /\ publisher.pc = "rlock"
    /\ CanRLock(stream.mu)
    /\ stream' = [stream EXCEPT !.mu.readers = @ \cup {PublisherThread}]
    /\ publisher' = [publisher EXCEPT !.pc = "locked"]
    /\ UNCHANGED <<chans, handlers, drains, pubLog, now, breakerVars,
                   cursorVars, poolVars, scannerVars, fetcherVars, loopVars>>

\* Publish under the read lock, up to its return: the event goes to the
\* buffer when no client is connected, and otherwise to every client
\* channel that has room.
PublishBody ==
    /\ publisher.pc = "locked"
    /\ \A c \in stream.clients : SelectReady(chans[c], stream.bufferSize)
    /\ stream' = [stream EXCEPT
                     !.mu.readers = @ \ {PublisherThread},
                     !.buffer = IF stream.clients = {}
                                THEN BufferEvent(@, publisher.t, stream.bufferSize)
                                ELSE @]
    /\ chans' = [c \in ClientIds |->
                    IF c \in stream.clients
                    THEN TrySend(chans[c], Marshal(publisher.t), stream.bufferSize)
                    ELSE chans[c]]
    /\ pubLog' = Append(pubLog, [t |-> publisher.t, clients |-> stream.clients])
    /\ publisher' = [publisher EXCEPT !.pc = "idle"]
    /\ UNCHANGED <<handlers, drains, now, breakerVars, cursorVars, poolVars,
                   scannerVars, fetcherVars, loopVars>>

\* A connection's handler calls Subscribe and takes the write lock.
SubscribeLock(c) ==
    /\ handlers[c].pc = "out"
    /\ CanLock(stream.mu)
    /\ stream' = [stream EXCEPT !.mu.writer = HandlerThread(c)]
    /\ handlers' = [handlers EXCEPT ![c].pc = "subscribing"]
    /\ UNCHANGED <<chans, publisher, drains, pubLog, now, breakerVars,
                   cursorVars, poolVars, scannerVars, fetcherVars, loopVars>>

\* Subscribe under the write lock, up to its return: the channel is made,
\* the replay goroutine started and the client registered.
SubscribeBody(c) ==
    /\ handlers[c].pc = "subscribing"
    /\ chans' = [chans EXCEPT ![c] = MakeChan]
    /\ drains' = [drains EXCEPT ![c] = [pc |-> "rlock", buffered |-> <<>>]]
    /\ stream' = [stream EXCEPT !.clients = @ \cup {c}, !.mu.writer = <<>>]
    /\ handlers' = [handlers EXCEPT ![c].pc = "receiving",
                                    ![c].at = Len(pubLog),
                                    ![c].pending = TrailingUnseen(SinceLastSubscribe)]
    /\ UNCHANGED <<publisher, pubLog, now, breakerVars, cursorVars, poolVars,
                   scannerVars, fetcherVars, loopVars>>

\* The replay goroutine copies the buffer under the read lock.
DrainCopy(c) ==
    /\ drains[c].pc = "rlock"
    /\ CanRLock(stream.mu)
    /\ drains' = [drains EXCEPT ![c] = [pc |-> "send", buffered |-> stream.buffer]]
    /\ UNCHANGED <<stream, chans, publisher, handlers, pubLog, now, breakerVars,
                   cursorVars, poolVars, scannerVars, fetcherVars, loopVars>>

\* One turn of the replay loop: the send on the client channel, which
\* panics once the channel is closed, or the one-second timeout while the
\* channel is full.
DrainSend(c) ==
    /\ drains[c].pc = "send"
    /\ IF drains[c].buffered = <<>>
       THEN /\ drains' = [drains EXCEPT ![c].pc = "done"]
            /\ chans' = chans
       ELSE IF chans[c].closed
       THEN /\ drains' = [drains EXCEPT ![c].pc = "panic"]
            /\ chans' = chans
       ELSE IF Len(chans[c].q) < stream.bufferSize
       THEN /\ chans' = [chans EXCEPT ![c].q = Append(@, Marshal(Head(drains[c].buffered)))]
            /\ drains' = [drains EXCEPT ![c].buffered = Tail(@)]
       ELSE /\ drains' = [drains EXCEPT ![c].pc = "timedOut"]
            /\ chans' = chans
    /\ UNCHANGED <<stream, publisher, handlers, pubLog, now, breakerVars,
                   cursorVars, poolVars, scannerVars, fetcherVars, loopVars>>

\* The handler's loop takes a message from its channel.
HandlerReceive(c) ==
    /\ handlers[c].pc = "receiving"
    /\ chans[c].q # <<>>
    /\ handlers' = [handlers EXCEPT ![c].recv = Append(@, Head(chans[c].q))]
    /\ chans' = [chans EXCEPT ![c].q = Tail(@)]
    /\ UNCHANGED <<stream, publisher, drains, pubLog, now, breakerVars,
                   cursorVars, poolVars, scannerVars, fetcherVars, loopVars>>

\* The handler returns (the connection is gone) and its deferred cleanup
\* takes the write lock.
CleanupLock(c) ==
    /\ handlers[c].pc = "receiving"
    /\ CanLock(stream.mu)
    /\ stream' = [stream EXCEPT !.mu.writer = HandlerThread(c)]
    /\ handlers' = [handlers EXCEPT ![c].pc = "cleanup"]
    /\ UNCHANGED <<chans, publisher, drains, pubLog, now, breakerVars,
                   cursorVars, poolVars, scannerVars, fetcherVars, loopVars>>

\* cleanup under the write lock: the client is removed, its channel closed.
CleanupBody(c) ==
    /\ handlers[c].pc = "cleanup"
    /\ stream' = [stream EXCEPT !.clients = @ \ {c}, !.mu.writer = <<>>]
    /\ chans' = [chans EXCEPT ![c].closed = TRUE]
    /\ handlers' = [handlers EXCEPT ![c].pc = "gone"]
    /\ UNCHANGED <<publisher, drains, pubLog, now, breakerVars, cursorVars,
                   poolVars, scannerVars, fetcherVars, loopVars>>

StreamNext ==
    \/ PublishCall
    \/ PublishRLock
    \/ PublishBody
    \/ \E c \in ClientIds : SubscribeLock(c)
    \/ \E c \in ClientIds : SubscribeBody(c)
    \/ \E c \in ClientIds : DrainCopy(c)
    \/ \E c \in ClientIds : DrainSend(c)
    \/ \E c \in ClientIds : HandlerReceive(c)
    \/ \E c \in ClientIds : CleanupLock(c)
    \/ \E c \in ClientIds : CleanupBody(c)

SpecStream == StreamInit /\ [][StreamNext]_vars

(***************************************************************************)
(* SpecStreamLive: SpecStream with the scheduling the Go runtime gives: a   *)
(* goroutine that can take the lock or holds it goes on. Nothing is        *)
(* assumed of the handlers' receiving or of the replay goroutines' sends.  *)
(***************************************************************************)
SpecStreamLive ==
    /\ SpecStream
    /\ WF_vars(PublishRLock)
    /\ WF_vars(PublishBody)
    /\ \A c \in ClientIds : WF_vars(SubscribeBody(c))
    /\ \A c \in ClientIds : WF_vars(CleanupBody(c))

\* C25: a Publish call returns, whatever the clients and however full
\* their channels are, also when no handler ever receives.
C25_PublishReturns == (publisher.pc # "idle") ~> (publisher.pc = "idle")

\* A Publish call has returned after dropping its event for a client whose
\* channel was full and whose handler had received nothing.
C25_Witness ==
    /\ publisher.pc = "idle" /\ pubLog # <<>>
    /\ \E c \in pubLog[Len(pubLog)].clients :
         /\ handlers[c].pc = "receiving" /\ handlers[c].recv = <<>>
         /\ Len(chans[c].q) = stream.bufferSize
         /\ \A i \in 1..Len(chans[c].q) :
              chans[c].q[i] # Marshal(pubLog[Len(pubLog)].t)

\* The last n elements of a sequence, all of it when it is shorter.
LastN(seq, n) == SubSeq(seq, Max2(1, Len(seq) - n + 1), Len(seq))

\* The transfers of the Publish calls so far, in call order.
PublishedRecords == [i \in 1..Len(pubLog) |-> pubLog[i].t]

\* C26 (as claimed): while no client has been connected at any Publish, the
\* buffer holds at most bufferSize records, and they are the bufferSize
\* most recently published ones in publish order.
C26_BufferHoldsMostRecent ==
    (\A i \in 1..Len(pubLog) : pubLog[i].clients = {}) =>
        /\ Len(stream.buffer) <= stream.bufferSize
        /\ stream.buffer = LastN(PublishedRecords, stream.bufferSize)

\* C27 (as claimed): when at most bufferSize records were published while
\* no client was connected and then a client subscribed, and its replay
\* has run to the end and the handler has received all that was sent, the
\* handler has received every one of those records, in publish order.
C27_ReplayDeliversAll ==
    \A c \in ClientIds :
        (/\ handlers[c].pc = "receiving"
         /\ drains[c].pc = "done"
         /\ chans[c].q = <<>>
         /\ Len(handlers[c].pending) <= stream.bufferSize) =>
            SelectSeq(handlers[c].recv,
                      LAMBDA m : \E i \in 1..Len(handlers[c].pending) :
                                    m = Marshal(handlers[c].pending[i]))
               = [i \in 1..Len(handlers[c].pending) |->
                     Marshal(handlers[c].pending[i])]

\* ---------------------------------------------------------------------------
\* SpecLoop: the loop of IngestionService.Start under its context.  main builds
\* the client over the provider pool when RPC_CONFIG is set and over a single
\* RPC client otherwise, starts Start in a goroutine and cancels its context on
\* SIGINT/SIGTERM.  A tick is processBlocks: its first remote call is
\* GetLatestBlockNumber.
\* ---------------------------------------------------------------------------
LoopInit ==
    /\ \E usePool \in BOOLEAN : loop = NewLoop(usePool)
    /\ poolMu = NewRWMutex
    /\ now = 0
    /\ BreakerIdle
    /\ CursorIdle
    /\ PoolIdle
    /\ ScannerIdle
    /\ FetcherIdle
    /\ StreamIdle

\* main: cancel() after the shutdown signal.
Cancel ==
    /\ ~loop.ctxDone
    /\ loop' = [loop EXCEPT !.ctxDone = TRUE]
    /\ UNCHANGED <<poolMu, now, breakerVars, cursorVars, poolVars, scannerVars,
                   fetcherVars, streamVars>>

\* The poll ticker fires: a value is put in ticker.C, whose buffer holds one.
TickerFire ==
    /\ loop.pc # "returned"
    /\ ~loop.tickerC
    /\ loop.ticks < MaxTicks
    /\ loop' = [loop EXCEPT !.tickerC = TRUE, !.ticks = @ + 1]
    /\ UNCHANGED <<poolMu, now, breakerVars, cursorVars, poolVars, scannerVars,
                   fetcherVars, streamVars>>

\* select takes case <-ctx.Done(): Start returns nil.
SelectDone ==
    /\ loop.pc = "select"
    /\ loop.ctxDone
    /\ loop' = [loop EXCEPT !.pc = "returned"]
    /\ UNCHANGED <<poolMu, now, breakerVars, cursorVars, poolVars, scannerVars,
                   fetcherVars, streamVars>>

\* select takes case <-ticker.C: processBlocks starts.  select has no order
\* among its ready cases, so this case may be taken with ctx already done.
SelectTick ==
    /\ loop.pc = "select"
    /\ loop.tickerC
    /\ loop' = [loop EXCEPT !.tickerC = FALSE,
                            !.pc = IF loop.usePool THEN "poolLock" ELSE "rpc",
                            !.lateTick = @ \/ loop.ctxDone]
    /\ UNCHANGED <<poolMu, now, breakerVars, cursorVars, poolVars, scannerVars,
                   fetcherVars, streamVars>>

\* ProviderPool.SelectProvider inside pool.HeaderByNumber: p.mu.Lock(), then
\* GetHealthyProviders takes p.mu.RLock() on the same mutex, then the deferred
\* unlocks.  Neither lock call looks at ctx.
LoopSelectProvider ==
    /\ loop.pc \in {"poolLock", "poolRLock"}
    /\ IF loop.pc = "poolLock"
       THEN /\ CanLock(poolMu)
            /\ poolMu' = [poolMu EXCEPT !.writer = ScannerThread]
            /\ loop' = [loop EXCEPT !.pc = "poolRLock"]
       ELSE /\ CanRLock(poolMu)
            /\ poolMu' = NewRWMutex
            /\ loop' = [loop EXCEPT !.pc = "rpc"]
    /\ UNCHANGED <<now, breakerVars, cursorVars, poolVars, scannerVars,
                   fetcherVars, streamVars>>

\* The HeaderByNumber RPC returns; it runs under a context derived from ctx.
\* On success the tick goes on.  On failure the single client returns the
\* error; the pool returns it when ctx is done and otherwise tries again or
\* gives up after its last attempt.
LoopHeaderRPC ==
    /\ loop.pc = "rpc"
    /\ \E ok \in BOOLEAN, again \in BOOLEAN :
          loop' = [loop EXCEPT !.pc =
                      IF ok THEN "rest"
                      ELSE IF loop.usePool /\ ~loop.ctxDone /\ again THEN "poolLock"
                      ELSE "select"]
    /\ UNCHANGED <<poolMu, now, breakerVars, cursorVars, poolVars, scannerVars,
                   fetcherVars, streamVars>>

\* The rest of processBlocks returns, with or without an error, and the loop
\* is back at its select.
LoopTickReturns ==
    /\ loop.pc = "rest"
    /\ loop' = [loop EXCEPT !.pc = "select", !.completed = @ + 1]
    /\ UNCHANGED <<poolMu, now, breakerVars, cursorVars, poolVars, scannerVars,
                   fetcherVars, streamVars>>

LoopNext ==
    \/ Cancel
    \/ TickerFire
    \/ SelectDone
    \/ SelectTick
    \/ LoopSelectProvider
    \/ LoopHeaderRPC
    \/ LoopTickReturns

SpecLoop == LoopInit /\ [][LoopNext]_vars

\* The loop under its scheduling: select among ready cases is a uniform random
\* choice, so a case that is ready again and again is taken in the end; a lock
\* that can be taken is taken; an RPC under a context returns.
SpecLoopLive ==
    /\ SpecLoop
    /\ SF_vars(SelectDone)
    /\ WF_vars(LoopSelectProvider)
    /\ WF_vars(LoopHeaderRPC)
    /\ WF_vars(LoopTickReturns)

\* C28: once the outer context is cancelled the loop starts no new tick, also
\* when the poll ticker has a value ready at that moment.
C28_NoTickAfterCancel ==
    [][(loop.ctxDone /\ loop.pc = "select") => loop'.pc \in {"select", "returned"}]_vars

\* C29: once the outer context is cancelled Start returns in the end, from its
\* wait at the select as well as from the middle of a tick.
C29_LoopReturnsAfterCancel == loop.ctxDone ~> (loop.pc = "returned")

\* C32: every header goroutine a FetchTransferLogs call started has finished
\* when the tick that made the call is over, whether the call succeeded or
\* returned on a failed header: no header goroutine is left running, fetching
\* or recording, after the tick.
C32_HeaderTasksJoined == fetch.pc = "idle" => fetch.stray = {}

\* The messages handler c has received that a Publish call sent to c's
\* channel itself, in the order of their reception.
LiveReceived(c) ==
    SelectSeq(handlers[c].recv,
              LAMBDA m : \E i \in 1..Len(pubLog) :
                            m = Marshal(pubLog[i].t) /\ c \in pubLog[i].clients)

\* C33: the records of a tick go to Publish in the order of the slice
\* FetchTransferLogs built from the log query's result (publisher.t is the
\* record's position in it), and every handler receives the records that
\* Publish sent to it in that same relative order; a record dropped for a
\* full channel leaves a gap.
C33_PublishOrderKept ==
    /\ \A i, j \in 1..Len(pubLog) : i < j => pubLog[i].t < pubLog[j].t
    /\ \A c \in ClientIds :
          \A i, j \in 1..Len(LiveReceived(c)) :
             i < j => LiveReceived(c)[i][2] < LiveReceived(c)[j][2]

\* A handler with a channel of two has received both records of the tick as
\* Publish sent them, the first before the second.
C33_Witness ==
    \E c \in ClientIds :
        /\ Len(pubLog) = 2
        /\ c \in pubLog[1].clients /\ c \in pubLog[2].clients
        /\ handlers[c].recv = <<Marshal(pubLog[1].t), Marshal(pubLog[2].t)>>

\* C34: a SelectProvider call never waits for a lock of the pool that the
\* call itself holds, so it returns: the goroutine is never at the read lock
\* of GetHealthyProviders while it holds the pool's write lock.
C34_SelectProviderNeverWaitsOnItself ==
    ~(loop.pc = "poolRLock" /\ poolMu.writer = ScannerThread)

C37_NoSendOnClosedChannel ==
    /\ \A c \in stream.clients : ~chans[c].closed
    /\ \A c \in ClientIds : drains[c].pc # "panic"

(***************************************************************************)
(* SpecProgress: the ticks of one IngestionService in adaptive mode over    *)
(* the single RPC client or over the provider pool. One endpoint always     *)
(* answers and accepts ranges up to its MaxRange, which is at least         *)
(* BATCH_MIN_SIZE; every other endpoint may fail any call. The store        *)
(* writes succeed. A tick makes its calls in the order of processBlocks:    *)
(* the latest header, the log query, the block headers of the logs.         *)
(***************************************************************************)
\* The pool operation of the ingestion goroutine.
ScannerOp == 1

\* A call of the tick enters the client: the attempt loop of the pool, or the
\* RPC of the single client. blockRange is 0 for a call that is no log query.
StartCall(usePool, blockRange) ==
    [IdleOp EXCEPT !.pc = IF usePool THEN "lock" ELSE "rpc",
                   !.blockRange = blockRange,
                   !.sel = IF usePool THEN 0 ELSE 1]

\* The attempt loop goes round: the next SelectProvider, or "all providers
\* failed" after 2 * len(providers) attempts.
NextAttempt(op, n) ==
    IF op.attempt + 1 >= 2 * n
    THEN [op EXCEPT !.pc = "done", !.result = "allFailed", !.attempt = @ + 1]
    ELSE [op EXCEPT !.pc = "lock", !.attempt = @ + 1]

\* failureCount and successCount are compared with their thresholds only:
\* each is kept at its threshold once it has reached it.
CapCounts(p) ==
    [p EXCEPT !.failureCount = Min2(@, p.failureThreshold),
              !.successCount = Min2(@, p.successThreshold)]

ProgressInit ==
    /\ \E env \in BatchEnvs, mr \in ProviderMaxRanges, cb \in PoolBreakerConfigs,
          usePool \in BOOLEAN, good \in 1..Len(ProviderWeights) :
          /\ env.ADAPTIVE_BATCH
          /\ cfg = Load(env, 0, FALSE, FALSE)
          /\ providers = NewProviderPool(mr, cb)
          /\ providers[good].MaxRange >= cfg.BatchMinSize
          /\ ~usePool => good = 1
          /\ loop = [NewLoop(usePool) EXCEPT !.answering = {good}]
    /\ svc = NewIngestionService(cfg)
    /\ scan = [NewScan EXCEPT !.pc = "wait"]
    /\ tip = 0
    /\ transfersColl = {}
    /\ published = {}
    /\ returned = {}
    /\ poolCurrent = 0
    /\ ops = [o \in OpIds |-> IdleOp]
    /\ poolMu = NewRWMutex
    /\ now = 0
    /\ BreakerIdle
    /\ CursorIdle
    /\ FetcherIdle
    /\ StreamIdle

\* The ticker fires: processBlocks calls GetLatestBlockNumber.
ProgressTickStart ==
    /\ scan.pc = "wait"
    /\ scan' = [scan EXCEPT !.pc = "tip", !.fromBlock = scan.currentBlock,
                            !.outcome = "running"]
    /\ ops' = [ops EXCEPT ![ScannerOp] = StartCall(loop.usePool, 0)]
    /\ UNCHANGED <<cfg, svc, tip, transfersColl, published, returned, providers,
                   poolCurrent, loop, poolMu, now, breakerVars, cursorVars,
                   fetcherVars, streamVars>>

\* One pass of the pool's attempt loop up to the RPC: SelectProvider with
\* its p.mu.Lock() and the p.mu.RLock() of GetHealthyProviders, then the
\* MaxRange test of FilterLogs and the already-attempted test. With two
\* providers only the parity of p.current matters.
ProgressSelectProvider ==
    LET op == ops[ScannerOp]
        r == SelectProvider(providers, poolCurrent, now)
        n == Len(providers)
    IN  /\ op.pc \in {"lock", "rlock"}
        /\ IF op.pc = "lock"
           THEN /\ CanLock(poolMu)
                /\ poolMu' = [poolMu EXCEPT !.writer = ScannerThread]
                /\ ops' = [ops EXCEPT ![ScannerOp].pc = "rlock"]
                /\ UNCHANGED <<providers, poolCurrent>>
           ELSE /\ CanRLock(poolMu)
                /\ poolMu' = NewRWMutex
                /\ providers' = AfterHealthChecks(providers, now)
                /\ poolCurrent' = r.current % n
                /\ ops' = [ops EXCEPT ![ScannerOp] =
                      IF r.err
                      THEN [op EXCEPT !.pc = "done", !.result = "noHealthy"]
                      ELSE IF scan.pc = "fetch"
                              /\ op.blockRange > providers[r.sel].MaxRange
                      THEN NextAttempt([op EXCEPT !.attempted = @ \cup {r.sel},
                                                  !.skipped = @ \cup {r.sel}], n)
                      ELSE IF r.sel \in op.attempted /\ op.attempt < n
                      THEN NextAttempt(op, n)
                      ELSE [op EXCEPT !.pc = "rpc", !.sel = r.sel]]
        /\ UNCHANGED <<cfg, svc, scan, tip, transfersColl, published, returned,
                       loop, now, breakerVars, cursorVars, fetcherVars,
                       streamVars>>

\* The RPC returns. The endpoint that always answers returns a result
\* unless the range is over its limit; over the pool the outcome is recorded
\* against the provider and a failure sends the loop round.
ProgressRpcReturn ==
    LET op == ops[ScannerOp]
        accepted == scan.pc # "fetch" \/ op.blockRange <= providers[op.sel].MaxRange
    IN  /\ op.pc = "rpc"
        /\ \E ok \in BOOLEAN :
              /\ (op.sel \in loop.answering /\ accepted) => ok
              /\ ~accepted => ~ok
              /\ providers' =
                    IF ~loop.usePool THEN providers
                    ELSE IF ok
                    THEN [providers EXCEPT ![op.sel] = CapCounts(RecordSuccess(@))]
                    ELSE [providers EXCEPT
                             ![op.sel] = CapCounts(RecordFailure(@, now))]
              /\ ops' = [ops EXCEPT ![ScannerOp] =
                    IF ok THEN [op EXCEPT !.pc = "done", !.result = "ok"]
                    ELSE IF loop.usePool
                    THEN NextAttempt([op EXCEPT !.attempted = @ \cup {op.sel}],
                                     Len(providers))
                    ELSE [op EXCEPT !.pc = "done", !.result = "err"]]
        /\ UNCHANGED <<cfg, svc, scan, tip, transfersColl, published, returned,
                       poolCurrent, loop, poolMu, now, breakerVars, cursorVars,
                       fetcherVars, streamVars>>

\* processBlocks after its last call returned nil: the cursor write
\* succeeded, the success adjustment, return toBlock + 1.
TickDone(s, toBlock) ==
    [s EXCEPT !.pc = "wait", !.outcome = "ok", !.toBlock = toBlock,
              !.currentBlock = NextBlock(toBlock)]

\* failureCount is only logged: it is kept at MaxFailures.
ProgressOnFailure(s, c) ==
    [OnFailure(s, c) EXCEPT !.failureCount = Min2(@, MaxFailures)]

\* A call of the tick returns to processBlocks, which goes on to its next
\* call or returns to the loop of Start.
ProgressCallReturns ==
    LET op == ops[ScannerOp]
        ok == op.result = "ok"
        fromBlock == scan.fromBlock
        latestBlock == tip
        batchSize == BatchSize(svc, cfg)
        toBlock == ToBlock(fromBlock, batchSize, latestBlock)
    IN  /\ op.pc = "done"
        /\ CASE scan.pc = "tip" /\ ~ok ->
                   /\ scan' = [scan EXCEPT !.pc = "wait", !.outcome = "tipError"]
                   /\ ops' = [ops EXCEPT ![ScannerOp] = IdleOp]
                   /\ svc' = svc
             [] scan.pc = "tip" /\ ok /\ NoNewBlocks(fromBlock, latestBlock) ->
                   /\ scan' = [scan EXCEPT !.pc = "wait", !.outcome = "empty",
                                           !.latestBlock = latestBlock]
                   /\ ops' = [ops EXCEPT ![ScannerOp] = IdleOp]
                   /\ svc' = svc
             [] scan.pc = "tip" /\ ok /\ ~NoNewBlocks(fromBlock, latestBlock) ->
                   /\ scan' = [scan EXCEPT !.pc = "fetch", !.latestBlock = latestBlock,
                                           !.batchSize = batchSize,
                                           !.toBlock = toBlock]
                   /\ ops' = [ops EXCEPT ![ScannerOp] =
                                 StartCall(loop.usePool, BlockRange(fromBlock, toBlock))]
                   /\ svc' = svc
             [] scan.pc \in {"fetch", "headers"} /\ ~ok ->
                   /\ scan' = [scan EXCEPT !.pc = "wait", !.outcome = "fetchError"]
                   /\ ops' = [ops EXCEPT ![ScannerOp] = IdleOp]
                   /\ svc' = ProgressOnFailure(svc, cfg)
             [] scan.pc = "fetch" /\ ok
                   /\ FilterLogs(scan.fromBlock, scan.toBlock) # {} ->
                   /\ scan' = [scan EXCEPT !.pc = "headers"]
                   /\ ops' = [ops EXCEPT ![ScannerOp] = StartCall(loop.usePool, 0)]
                   /\ svc' = svc
             [] OTHER ->
                   /\ scan' = TickDone(scan, scan.toBlock)
                   /\ ops' = [ops EXCEPT ![ScannerOp] = IdleOp]
                   /\ svc' = OnSuccess(svc, cfg)
        /\ UNCHANGED <<cfg, tip, transfersColl, published, returned, providers,
                       poolCurrent, loop, poolMu, now, breakerVars, cursorVars,
                       fetcherVars, streamVars>>

\* A block is added to the chain.
ProgressChainGrow ==
    /\ tip < MaxTip
    /\ tip' = tip + 1
    /\ UNCHANGED <<cfg, svc, scan, transfersColl, published, returned, poolVars,
                   loopVars, now, breakerVars, cursorVars, fetcherVars,
                   streamVars>>

\* Time passes.
ProgressClock ==
    /\ now < MaxPoolTime
    /\ ClockTick
    /\ UNCHANGED <<scannerVars, poolVars, loopVars, breakerVars, cursorVars,
                   fetcherVars, streamVars>>

ProgressNext ==
    \/ ProgressTickStart
    \/ ProgressSelectProvider
    \/ ProgressRpcReturn
    \/ ProgressCallReturns
    \/ ProgressChainGrow
    \/ ProgressClock

\* The ticker keeps firing, a lock that can be taken is taken, an RPC
\* returns, and processBlocks goes on after a call has returned.
SpecProgress ==
    /\ ProgressInit /\ [][ProgressNext]_vars
    /\ WF_vars(ProgressTickStart)
    /\ WF_vars(ProgressSelectProvider)
    /\ WF_vars(ProgressRpcReturn)
    /\ WF_vars(ProgressCallReturns)

\* C39: in adaptive mode, with an endpoint that always answers and whose
\* MaxRange is at least BATCH_MIN_SIZE and with store writes that succeed,
\* from every state with currentBlock <= tip, also one whose batch size is
\* above every endpoint's MaxRange, a later tick succeeds and moves
\* currentBlock forward.
C39_AdaptiveProgress ==
    \A n \in 0..MaxTip :
       (scan.pc = "wait" /\ scan.currentBlock = n /\ n <= tip)
          ~> (scan.currentBlock > n)

====
